---- MODULE Spec2Model ----
(***************************************************************************)
(* Model of the repository indexing pipeline of deepl-wiki:                *)
(*   - GitignoreParser (index_repo_agent/gitignore_parser.py)              *)
(*   - IndexRepoAgent  (index_repo_agent/main.py), the LangGraph workflow  *)
(*   - DocumentationGenerator (index_repo_agent/documentation_generator.py)*)
(*   - ChromaManager._split_memo (shared/chroma_manager.py)                *)
(* Python strings are sequences of one-character strings, so that slicing, *)
(* searching and globbing are computed as the code computes them.          *)
(***************************************************************************)
EXTENDS Integers, Sequences, FiniteSets, TLC

VARIABLES ign, scn, chk, elg, pln, node, state, fs, store, steps

vars == <<ign, scn, chk, elg, pln, node, state, fs, store, steps>>

-----------------------------------------------------------------------------
(* Python string and list primitives                                       *)

Chars(s) == [i \in 1..Len(s) |-> SubSeq(s, i, i)]

Min(a, b) == IF a < b THEN a ELSE b

Max(a, b) == IF a > b THEN a ELSE b

\* s[a:b] with 0-based, end-exclusive, clamped Python slice bounds
Slice(s, a, b) == SubSeq(s, Max(a, 0) + 1, Min(b, Len(s)))

StartsWith(s, p) == Len(p) <= Len(s) /\ SubSeq(s, 1, Len(p)) = p

EndsWith(s, p) == Len(p) <= Len(s) /\ SubSeq(s, Len(s) - Len(p) + 1, Len(s)) = p

\* p in s
Contains(s, p) == \E i \in 1..(Len(s) - Len(p) + 1) : SubSeq(s, i, i + Len(p) - 1) = p

\* s.rfind(c) for a one-character c: 0-based index of the last occurrence, -1 if none
RFind(s, c) ==
    LET hits == {i \in 1..Len(s) : s[i] = c}
    IN IF hits = {} THEN -1 ELSE (CHOOSE i \in hits : \A j \in hits : j <= i) - 1

\* 1-based position of the first occurrence of c in s, 0 if none
FirstIndex(s, c) ==
    LET hits == {i \in 1..Len(s) : s[i] = c}
    IN IF hits = {} THEN 0 ELSE CHOOSE i \in hits : \A j \in hits : i <= j

RECURSIVE Split(_, _)
\* s.split(c)
Split(s, c) ==
    LET k == FirstIndex(s, c)
    IN IF k = 0 THEN <<s>>
       ELSE <<SubSeq(s, 1, k - 1)>> \o Split(SubSeq(s, k + 1, Len(s)), c)

RECURSIVE Join(_, _)
\* c.join(parts)
Join(parts, c) ==
    IF Len(parts) = 0 THEN <<>>
    ELSE IF Len(parts) = 1 THEN parts[1]
    ELSE parts[1] \o c \o Join(Tail(parts), c)

SeqToSet(s) == {s[i] : i \in 1..Len(s)}

RECURSIVE FnMatchFrom(_, _, _, _)
FnMatchFrom(s, p, i, j) ==
    IF j > Len(p) THEN i > Len(s)
    ELSE IF p[j] = "*"
         THEN FnMatchFrom(s, p, i, j + 1) \/ (i <= Len(s) /\ FnMatchFrom(s, p, i + 1, j))
         ELSE /\ i <= Len(s)
              /\ (p[j] = "?" \/ p[j] = s[i])
              /\ FnMatchFrom(s, p, i + 1, j + 1)

\* fnmatch.fnmatch(name, pat): whole-string glob, '*' also matches '/'
FnMatch(s, p) == FnMatchFrom(s, p, 1, 1)

-----------------------------------------------------------------------------
(* GitignoreParser                                                         *)

_normalize_pattern(line) ==
    LET is_negation == StartsWith(line, <<"!">>)
        p1 == IF is_negation THEN Tail(line) ELSE line
        is_directory == EndsWith(p1, <<"/">>)
        p2 == IF is_directory THEN SubSeq(p1, 1, Len(p1) - 1) ELSE p1
        is_absolute == StartsWith(p2, <<"/">>)
        p3 == IF is_absolute THEN Tail(p2) ELSE p2
    IN [pattern |-> p3, original |-> line, is_negation |-> is_negation,
        is_directory |-> is_directory, is_absolute |-> is_absolute]

RECURSIVE _load_gitignore_patterns(_)
\* lines are the stripped lines of the ignore files, in file order
_load_gitignore_patterns(lines) ==
    IF lines = <<>> THEN <<>>
    ELSE LET line == Head(lines)
             rest == _load_gitignore_patterns(Tail(lines))
         IN IF line # <<>> /\ ~StartsWith(line, <<"#">>)
            THEN <<_normalize_pattern(line)>> \o rest
            ELSE rest

common_ignored ==
    << Chars("node_modules/"), Chars("__pycache__/"), Chars(".git/"), Chars(".svn/"),
       Chars(".hg/"), Chars("venv/"), Chars("env/"), Chars(".env/"),
       Chars("virtualenv/"), Chars(".venv/"), Chars("build/"), Chars("dist/"),
       Chars("target/"), Chars("out/"), Chars(".next/"), Chars(".nuxt/"),
       Chars(".idea/"), Chars(".vscode/"), Chars(".vs/"), Chars("*.pyc"),
       Chars("*.pyo"), Chars("*.class"), Chars("*.o"), Chars("*.so"),
       Chars("*.dll"), Chars("*.exe"), Chars("*.bin"), Chars("*.jar"),
       Chars("*.war"), Chars("*.log"), Chars("*.tmp"), Chars("*.temp"),
       Chars("*.cache"), Chars("*.swp"), Chars("*.swo"), Chars(".DS_Store"),
       Chars("Thumbs.db"), Chars("*.min.js"), Chars("*.min.css"), Chars("coverage/"),
       Chars(".coverage"), Chars(".nyc_output/"), Chars("htmlcov/"),
       Chars(".pytest_cache/"), Chars(".tox/"), Chars(".mypy_cache/"),
       Chars(".ruff_cache/") >>

_is_common_ignored_path(path_str) ==
    \E k \in 1..Len(common_ignored) :
        LET ignored == common_ignored[k]
        IN IF EndsWith(ignored, <<"/">>)
           THEN SubSeq(ignored, 1, Len(ignored) - 1) \in SeqToSet(Split(path_str, "/"))
           ELSE IF StartsWith(ignored, <<"*", ".">>)
                THEN EndsWith(path_str, Tail(ignored))
                ELSE Contains(path_str, ignored)

\* the `matches` flag computed for one pattern (gitignore_parser.py 96-113)
PatternMatches(pattern_info, path_str) ==
    IF pattern_info.is_absolute
    THEN FnMatch(path_str, pattern_info.pattern)
    ELSE LET path_parts == Split(path_str, "/")
         IN \E i \in 1..Len(path_parts) :
               \/ FnMatch(Join(SubSeq(path_parts, i, Len(path_parts)), <<"/">>),
                          pattern_info.pattern)
               \/ FnMatch(path_parts[i], pattern_info.pattern)

RECURSIVE RuleLoop(_, _, _, _)
\* the for-loop over self.patterns, carrying the is_ignored flag
RuleLoop(patterns, path_str, is_file, flag) ==
    IF patterns = <<>> THEN flag
    ELSE LET pattern_info == Head(patterns)
         IN IF pattern_info.is_directory /\ is_file
            THEN RuleLoop(Tail(patterns), path_str, is_file, flag)
            ELSE IF PatternMatches(pattern_info, path_str)
                 THEN RuleLoop(Tail(patterns), path_str, is_file, ~pattern_info.is_negation)
                 ELSE RuleLoop(Tail(patterns), path_str, is_file, flag)

\* file_path = [root, rel, is_file]; relative_to raises ValueError when the
\* path is not under repo_path, and is_ignored then answers True
is_ignored(repo_path, patterns, file_path) ==
    IF file_path.root # repo_path THEN TRUE
    ELSE IF _is_common_ignored_path(file_path.rel) THEN TRUE
    ELSE RuleLoop(patterns, file_path.rel, file_path.is_file, FALSE)

-----------------------------------------------------------------------------
(* pathlib.Path                                                            *)

UpperLetters == Chars("ABCDEFGHIJKLMNOPQRSTUVWXYZ")

LowerLetters == Chars("abcdefghijklmnopqrstuvwxyz")

\* the lower-case letter of every upper-case letter
LowerOf == [c \in SeqToSet(UpperLetters) |-> LowerLetters[FirstIndex(UpperLetters, c)]]

LowerChar(c) == IF c \in DOMAIN LowerOf THEN LowerOf[c] ELSE c

\* str.lower()
Lower(s) == [i \in 1..Len(s) |-> LowerChar(s[i])]

\* Path.name: the last component
PathName(p) == LET parts == Split(p, "/") IN parts[Len(parts)]

\* Path.suffix: from the last '.' of the name, unless it is first or last
PathSuffix(p) ==
    LET name == PathName(p)
        i == RFind(name, ".")
    IN IF 0 < i /\ i < Len(name) - 1 THEN Slice(name, i, Len(name)) ELSE <<>>

\* Path.parts of the absolute path root/rel
PathParts(root, rel) ==
    <<(<<"/">>)>> \o Split(Tail(root), "/") \o Split(rel, "/")

\* str(root / rel)
FullPath(root, rel) == root \o <<"/">> \o rel

-----------------------------------------------------------------------------
(* IndexRepoAgent: construction defaults and file scanning                 *)

max_file_size == 100000

excluded_dirs ==
    { Chars(".git"), Chars(".svn"), Chars(".hg"), Chars("node_modules"),
      Chars("__pycache__"), Chars(".pytest_cache"), Chars("venv"), Chars("env"),
      Chars(".env"), Chars("virtualenv"), Chars("build"), Chars("dist"),
      Chars("target"), Chars("out"), Chars(".idea"), Chars(".vscode"), Chars(".vs") }

excluded_extensions ==
    { Chars(".pyc"), Chars(".pyo"), Chars(".class"), Chars(".o"), Chars(".so"),
      Chars(".dll"), Chars(".exe"), Chars(".bin"), Chars(".jar"), Chars(".war"),
      Chars(".log"), Chars(".tmp"), Chars(".temp"), Chars(".cache"), Chars(".png"),
      Chars(".jpg"), Chars(".jpeg"), Chars(".gif"), Chars(".bmp"), Chars(".ico"),
      Chars(".mp3"), Chars(".mp4"), Chars(".wav"), Chars(".avi"), Chars(".mov"),
      Chars(".zip"), Chars(".tar"), Chars(".gz"), Chars(".rar"), Chars(".7z") }

respect_gitignore == TRUE

_categorize_file(rel) ==
    LET ext == Lower(PathSuffix(rel))
        name == Lower(PathName(rel))
        code_extensions == { Chars(".py"), Chars(".js"), Chars(".ts"), Chars(".java"),
                             Chars(".cpp"), Chars(".c"), Chars(".h"), Chars(".cs"),
                             Chars(".php"), Chars(".rb"), Chars(".go"), Chars(".rs") }
        config_extensions == { Chars(".json"), Chars(".yaml"), Chars(".yml"),
                               Chars(".toml"), Chars(".ini"), Chars(".cfg"), Chars(".conf") }
        doc_extensions == { Chars(".md"), Chars(".txt"), Chars(".rst"), Chars(".org") }
        test_patterns == { Chars("test"), Chars("spec"), Chars("__test__") }
    IN IF \E pattern \in test_patterns : Contains(name, pattern) THEN "test"
       ELSE IF ext \in code_extensions THEN "code"
       ELSE IF \/ ext \in config_extensions
               \/ name \in { Chars("dockerfile"), Chars("makefile"), Chars("requirements.txt") }
            THEN "config"
       ELSE IF ext \in doc_extensions THEN "documentation"
       ELSE "other"

\* the sort key of _scan_files: (category priority, importance, -size)
file_priority(file_info) ==
    LET category_priority == [code |-> 0, config |-> 1, documentation |-> 2,
                              test |-> 3, other |-> 4]
        important_files == { Chars("main.py"), Chars("app.py"), Chars("index.js"),
                             Chars("main.js"), Chars("server.js"), Chars("README.md"),
                             Chars("requirements.txt"), Chars("package.json"),
                             Chars("Dockerfile") }
        importance == IF file_info.name \in important_files THEN 0 ELSE 1
    IN <<category_priority[file_info.category], importance, 0 - file_info.size>>

RECURSIVE TupleLess(_, _)
\* Python tuple comparison a < b for equal-length integer tuples
TupleLess(a, b) ==
    IF a = <<>> THEN FALSE
    ELSE IF Head(a) # Head(b) THEN Head(a) < Head(b)
    ELSE TupleLess(Tail(a), Tail(b))

FileKeyLess(a, b) == TupleLess(file_priority(a), file_priority(b))

RECURSIVE InsertBeforeEqual(_, _)
\* insert x before every element whose key is not smaller
InsertBeforeEqual(sorted, x) ==
    IF sorted = <<>> THEN <<x>>
    ELSE IF ~FileKeyLess(Head(sorted), x) THEN <<x>> \o sorted
    ELSE <<Head(sorted)>> \o InsertBeforeEqual(Tail(sorted), x)

RECURSIVE InsertByFilePriority(_, _)
\* insert x after every element whose key is not greater (stable)
InsertByFilePriority(sorted, x) ==
    IF sorted = <<>> THEN <<x>>
    ELSE IF FileKeyLess(x, Head(sorted)) THEN <<x>> \o sorted
    ELSE <<Head(sorted)>> \o InsertByFilePriority(Tail(sorted), x)

RECURSIVE SortByFilePriority(_)
\* list.sort(key=file_priority): stable
SortByFilePriority(files) ==
    IF files = <<>> THEN <<>>
    ELSE InsertByFilePriority(SortByFilePriority(SubSeq(files, 1, Len(files) - 1)),
                              files[Len(files)])

RECURSIVE ScanLoop(_, _, _)
\* the rglob loop of _scan_files; entries = [rel, size, is_file, stat_ok] in
\* directory-walk order
ScanLoop(repo_path, patterns, entries) ==
    IF entries = <<>> THEN <<>>
    ELSE LET e == Head(entries)
             rest == ScanLoop(repo_path, patterns, Tail(entries))
             file_path == [root |-> repo_path, rel |-> e.rel, is_file |-> e.is_file]
         IN IF ~e.is_file THEN rest
            ELSE IF respect_gitignore /\ is_ignored(repo_path, patterns, file_path) THEN rest
            ELSE IF \E excluded \in excluded_dirs :
                        excluded \in SeqToSet(PathParts(repo_path, e.rel)) THEN rest
            ELSE IF Lower(PathSuffix(e.rel)) \in excluded_extensions THEN rest
            ELSE IF ~e.stat_ok THEN rest
            ELSE << [path |-> FullPath(repo_path, e.rel),
                     relative_path |-> e.rel,
                     name |-> PathName(e.rel),
                     extension |-> Lower(PathSuffix(e.rel)),
                     size |-> e.size,
                     category |-> _categorize_file(e.rel)] >> \o rest

\* repo = [path, entries, gitignore]: a directory on disk
_scan_files(repo) ==
    SortByFilePriority(
        ScanLoop(repo.path, _load_gitignore_patterns(repo.gitignore), repo.entries))

-----------------------------------------------------------------------------
(* Inputs of the ignore-engine and scanner specifications                  *)

MaxRules == 2

MaxEntries == 3

RECURSIVE SeqsUpTo(_, _)
\* all sequences over S of length at most n
SeqsUpTo(S, n) ==
    IF n = 0 THEN {<<>>}
    ELSE LET shorter == SeqsUpTo(S, n - 1)
         IN shorter \cup {Append(q, x) : q \in shorter, x \in S}

IsInjective(q) == \A i, j \in 1..Len(q) : i # j => q[i] # q[j]

RepoRoot == Chars("/w/r1")

RuleLines ==
    { Chars("build/"), Chars("!build/keep.txt"), Chars("*.txt"), Chars("!keep.txt"),
      Chars("/docs/*"), Chars("gen/"), Chars("# note") }

IgnoreFilePaths ==
    { [root |-> RepoRoot, rel |-> Chars("build/a.o"), is_file |-> TRUE],
      [root |-> RepoRoot, rel |-> Chars("build/keep.txt"), is_file |-> TRUE],
      [root |-> RepoRoot, rel |-> Chars("docs/x.txt"), is_file |-> TRUE],
      [root |-> RepoRoot, rel |-> Chars("docs/keep.txt"), is_file |-> TRUE],
      [root |-> RepoRoot, rel |-> Chars("gen/b.py"), is_file |-> TRUE],
      [root |-> RepoRoot, rel |-> Chars("gen"), is_file |-> FALSE],
      [root |-> RepoRoot, rel |-> Chars("src/a.py"), is_file |-> TRUE],
      [root |-> Chars("/w/r2"), rel |-> Chars("src/a.py"), is_file |-> TRUE] }

EntryPool ==
    { [rel |-> Chars("build/a.o"), size |-> 10, is_file |-> TRUE, stat_ok |-> TRUE],
      [rel |-> Chars("build/keep.txt"), size |-> 20, is_file |-> TRUE, stat_ok |-> TRUE],
      [rel |-> Chars("src/a.py"), size |-> 300, is_file |-> TRUE, stat_ok |-> TRUE],
      [rel |-> Chars("docs/keep.txt"), size |-> 40, is_file |-> TRUE, stat_ok |-> TRUE],
      [rel |-> Chars("gen/b.py"), size |-> 300, is_file |-> TRUE, stat_ok |-> TRUE],
      [rel |-> Chars("gen"), size |-> 0, is_file |-> FALSE, stat_ok |-> TRUE],
      [rel |-> Chars("README.md"), size |-> 40, is_file |-> TRUE, stat_ok |-> FALSE] }

GitignoreFiles ==
    { <<>>,
      <<Chars("build/"), Chars("!build/keep.txt")>>,
      <<Chars("gen/")>>,
      <<Chars("*.txt"), Chars("!keep.txt")>> }

IgnIdle == [pc |-> "idle"]

ScnIdle == [pc |-> "idle"]

ChkIdle == [pc |-> "idle"]

ElgIdle == [pc |-> "idle"]

PlnIdle == [pc |-> "idle"]

PipelineIdle ==
    /\ node = "idle"
    /\ state = [error |-> "None"]
    /\ fs = <<>>
    /\ store = <<>>
    /\ steps = <<>>

-----------------------------------------------------------------------------
(* Specification SpecIgnore: GitignoreParser(repo).is_ignored(path)        *)

InitIgnore ==
    /\ ign \in [pc : {"start"}, lines : SeqsUpTo(RuleLines, MaxRules),
                file_path : IgnoreFilePaths, result : {FALSE}]
    /\ scn = ScnIdle /\ chk = ChkIdle /\ elg = ElgIdle /\ pln = PlnIdle
    /\ PipelineIdle

IgnoreCheck ==
    /\ ign.pc = "start"
    /\ ign' = [ign EXCEPT !.pc = "done",
                          !.result = is_ignored(RepoRoot,
                                                _load_gitignore_patterns(ign.lines),
                                                ign.file_path)]
    /\ UNCHANGED <<scn, chk, elg, pln, node, state, fs, store, steps>>

NextIgnore == IgnoreCheck

SpecIgnore == InitIgnore /\ [][NextIgnore]_vars

\* indices of the loaded rules that match the path, as the rule loop sees them
MatchingRules(patterns, file_path) ==
    {i \in 1..Len(patterns) :
        /\ ~(patterns[i].is_directory /\ file_path.is_file)
        /\ PatternMatches(patterns[i], file_path.rel)}

LastMatchPolarity(patterns, file_path) ==
    LET m == MatchingRules(patterns, file_path)
    IN IF m = {} THEN FALSE
       ELSE ~patterns[CHOOSE i \in m : \A j \in m : j <= i].is_negation

\* C4: for every rule list and every path of the repository, is_ignored
\* returns the polarity of the last rule that matches the path, and "not
\* ignored" when no rule matches.
C4_LastMatchingRuleWins ==
    (ign.pc = "done" /\ ign.file_path.root = RepoRoot)
        => ign.result = LastMatchPolarity(_load_gitignore_patterns(ign.lines), ign.file_path)

-----------------------------------------------------------------------------
(* Specification SpecScan: IndexRepoAgent._scan_files(repo)                *)

InitScan ==
    /\ scn \in {r \in [pc : {"start"}, entries : SeqsUpTo(EntryPool, MaxEntries),
                       gitignore : GitignoreFiles, result : {<<>>}] :
                    IsInjective(r.entries)}
    /\ ign = IgnIdle /\ chk = ChkIdle /\ elg = ElgIdle /\ pln = PlnIdle
    /\ PipelineIdle

ScanFiles ==
    /\ scn.pc = "start"
    /\ scn' = [scn EXCEPT !.pc = "done",
                          !.result = _scan_files([path |-> RepoRoot,
                                                  entries |-> scn.entries,
                                                  gitignore |-> scn.gitignore])]
    /\ UNCHANGED <<ign, chk, elg, pln, node, state, fs, store, steps>>

NextScan == ScanFiles

SpecScan == InitScan /\ [][NextScan]_vars

ScannedPaths == {scn.result[i].relative_path : i \in 1..Len(scn.result)}

TreePaths == {scn.entries[i].rel : i \in 1..Len(scn.entries)}

\* C5: with the ignore file `build/` then `!build/keep.txt`, scanning a tree
\* that contains build/a.o and build/keep.txt omits build/a.o and returns
\* build/keep.txt.
C5_NegationKeepsFile ==
    ( /\ scn.pc = "done"
      /\ scn.gitignore = <<Chars("build/"), Chars("!build/keep.txt")>>
      /\ {Chars("build/a.o"), Chars("build/keep.txt")} \subseteq TreePaths )
        => /\ Chars("build/a.o") \notin ScannedPaths
           /\ Chars("build/keep.txt") \in ScannedPaths

\* the names of the directories a relative path lies under
DirsAbove(rel) ==
    LET parts == Split(rel, "/")
    IN {parts[i] : i \in 1..(Len(parts) - 1)}

\* C26: for a directory-only rule `d/` of the ignore file (no negation in
\* the file), where d is not one of the built-in ignored names, every file
\* that lies under a directory named d is reported ignored by is_ignored
\* and is omitted from the scan result.
C26_DirectoryRuleHidesFiles ==
    (scn.pc = "done") =>
        LET patterns == _load_gitignore_patterns(scn.gitignore)
        IN \A k \in 1..Len(patterns), i \in 1..Len(scn.entries) :
              (/\ \A j \in 1..Len(patterns) : ~patterns[j].is_negation
               /\ patterns[k].is_directory
               /\ ~patterns[k].is_absolute
               /\ Append(patterns[k].pattern, "/") \notin SeqToSet(common_ignored)
               /\ scn.entries[i].is_file
               /\ patterns[k].pattern \in DirsAbove(scn.entries[i].rel))
              => /\ is_ignored(RepoRoot, patterns,
                               [root |-> RepoRoot, rel |-> scn.entries[i].rel,
                                is_file |-> TRUE])
                 /\ scn.entries[i].rel \notin ScannedPaths

-----------------------------------------------------------------------------
(* Specification SpecRescan: IndexRepoAgent._scan_files called twice on a  *)
(* directory that does not change between the calls: the same entries, in  *)
(* the same directory-walk order, with the same ignore file                *)

InitRescan ==
    /\ scn \in {r \in [pc : {"start"}, entries : SeqsUpTo(EntryPool, MaxEntries),
                       gitignore : GitignoreFiles, first : {<<>>}, second : {<<>>}] :
                    IsInjective(r.entries)}
    /\ ign = IgnIdle /\ chk = ChkIdle /\ elg = ElgIdle /\ pln = PlnIdle
    /\ PipelineIdle

ScanOnce ==
    /\ scn.pc = "start"
    /\ scn' = [scn EXCEPT !.pc = "scanned",
                          !.first = _scan_files([path |-> RepoRoot,
                                                 entries |-> scn.entries,
                                                 gitignore |-> scn.gitignore])]
    /\ UNCHANGED <<ign, chk, elg, pln, node, state, fs, store, steps>>

ScanAgain ==
    /\ scn.pc = "scanned"
    /\ scn' = [scn EXCEPT !.pc = "rescanned",
                          !.second = _scan_files([path |-> RepoRoot,
                                                  entries |-> scn.entries,
                                                  gitignore |-> scn.gitignore])]
    /\ UNCHANGED <<ign, chk, elg, pln, node, state, fs, store, steps>>

NextRescan == ScanOnce \/ ScanAgain

SpecRescan == InitRescan /\ [][NextRescan]_vars

\* the position of a file record's entry in the directory walk
WalkIndex(file_info) ==
    CHOOSE i \in 1..Len(scn.entries) : scn.entries[i].rel = file_info.relative_path

-----------------------------------------------------------------------------
(* ChromaManager._split_memo                                               *)

MaxMemoLen == 7

MaxChunk == 5

MaxIter == 8

ChunkAlphabet == {"a", ".", "\n"}

Whitespace == {" ", "\n", "\t", "\r"}

\* s[a:b] with Python's index normalisation (negative indices count from the end)
PySlice(s, a, b) ==
    LET n == Len(s)
        lo == IF a < 0 THEN Max(a + n, 0) ELSE Min(a, n)
        hi == IF b < 0 THEN Max(b + n, 0) ELSE Min(b, n)
    IN SubSeq(s, lo + 1, hi)

RECURSIVE LStrip(_)
LStrip(s) == IF s # <<>> /\ Head(s) \in Whitespace THEN LStrip(Tail(s)) ELSE s

RECURSIVE RStrip(_)
RStrip(s) ==
    IF s # <<>> /\ s[Len(s)] \in Whitespace THEN RStrip(SubSeq(s, 1, Len(s) - 1)) ELSE s

\* str.strip()
Strip(s) == RStrip(LStrip(s))

\* [chunk for chunk in chunks if chunk.strip()]
NonBlank(chunks) == SelectSeq(chunks, LAMBDA c : Strip(c) # <<>>)

\* one pass of the while-loop body: the window [start, end) after the
\* boundary adjustment, and the chunk cut from it
Window(memo, chunk_size, start) ==
    LET end0 == start + chunk_size
        chunk0 == PySlice(memo, start, end0)
        break_point == Max(RFind(chunk0, "."), RFind(chunk0, "\n"))
        shrink == end0 < Len(memo) /\ break_point > start + (chunk_size \div 2)
    IN [end |-> IF shrink THEN start + break_point + 1 ELSE end0,
        chunk |-> IF shrink THEN PySlice(memo, start, start + break_point + 1) ELSE chunk0]

-----------------------------------------------------------------------------
(* Specification SpecChunk: _split_memo(memo, chunk_size, overlap)         *)

ChunkParams ==
    {pr \in [chunk_size : (MaxChunk - 1)..MaxChunk, overlap : 0..(MaxChunk - 1)] :
        pr.overlap < pr.chunk_size}

InitChunk ==
    /\ \E memo \in SeqsUpTo(ChunkAlphabet, MaxMemoLen), pr \in ChunkParams :
          chk = [pc |-> "start", memo |-> memo, chunk_size |-> pr.chunk_size,
                 overlap |-> pr.overlap, start |-> 0, chunks |-> <<>>, result |-> <<>>]
    /\ ign = IgnIdle /\ scn = ScnIdle /\ elg = ElgIdle /\ pln = PlnIdle
    /\ PipelineIdle

\* entry into the loop whatever the length of the text
SplitEnterLoop ==
    /\ chk.pc = "start"
    /\ chk' = [chk EXCEPT !.pc = "loop"]
    /\ UNCHANGED <<ign, scn, elg, pln, node, state, fs, store, steps>>

\* lines 173-177: the short-text return, or entry into the loop
SplitEnter ==
    /\ chk.pc = "start"
    /\ IF Len(chk.memo) <= chk.chunk_size
       THEN chk' = [chk EXCEPT !.pc = "done", !.result = <<chk.memo>>]
       ELSE chk' = [chk EXCEPT !.pc = "loop"]
    /\ UNCHANGED <<ign, scn, elg, pln, node, state, fs, store, steps>>

\* lines 179-196: one iteration of the while loop
SplitIter ==
    /\ chk.pc = "loop"
    /\ chk.start < Len(chk.memo)
    /\ Len(chk.chunks) < MaxIter
    /\ LET w == Window(chk.memo, chk.chunk_size, chk.start)
           chunks == Append(chk.chunks, Strip(w.chunk))
           start == w.end - chk.overlap
       IN IF start >= Len(chk.memo)
          THEN chk' = [chk EXCEPT !.pc = "done", !.chunks = chunks, !.start = start,
                                  !.result = NonBlank(chunks)]
          ELSE chk' = [chk EXCEPT !.chunks = chunks, !.start = start]
    /\ UNCHANGED <<ign, scn, elg, pln, node, state, fs, store, steps>>

NextChunk == SplitEnter \/ SplitIter

SpecChunk == InitChunk /\ [][NextChunk]_vars

RECURSIVE DropOverlapAndJoin(_, _)
\* the chunks after the first, each without its leading `overlap` characters
DropOverlapAndJoin(chunks, overlap) ==
    IF chunks = <<>> THEN <<>>
    ELSE PySlice(Head(chunks), overlap, Len(Head(chunks)))
             \o DropOverlapAndJoin(Tail(chunks), overlap)

Reassemble(chunks, overlap) ==
    IF chunks = <<>> THEN <<>>
    ELSE Head(chunks) \o DropOverlapAndJoin(Tail(chunks), overlap)

WithoutWhitespace(s) == SelectSeq(s, LAMBDA c : c \notin Whitespace)

\* C7: for every text longer than target_size, the chunks with the overlap
\* removed from every chunk after the first concatenate to the original
\* text, up to whitespace (checked here for overlaps of at most half the
\* chunk size, the proportion of the configured 1000/200).
C7_ChunksReassemble ==
    ( /\ chk.pc = "done"
      /\ Len(chk.memo) > chk.chunk_size
      /\ 2 * chk.overlap <= chk.chunk_size )
        => WithoutWhitespace(Reassemble(chk.result, chk.overlap)) = WithoutWhitespace(chk.memo)

\* C20: for every text whose length is at most the chunk size, the chunker
\* returns exactly one chunk and that chunk is equal to the input text.
C20_ShortTextOneChunk ==
    (chk.pc = "done" /\ Len(chk.memo) <= chk.chunk_size)
        => /\ Len(chk.result) = 1
           /\ chk.result[1] = chk.memo

\* a text exactly as long as the chunk size that starts with a line break
\* came back as its one chunk
C20_Witness ==
    /\ chk.pc = "done"
    /\ Len(chk.memo) = chk.chunk_size
    /\ chk.memo[1] = "\n"
    /\ chk.result = <<chk.memo>>

\* C24: for every window cut by the loop whose end is not the end of the
\* text, at any start position: if the last "." or line break inside the
\* window lies past the window's midpoint (more than chunk_size // 2
\* characters into the window), the chunk ends immediately after that
\* character; otherwise it ends after exactly chunk_size characters.
C24_CutAtSentenceEnd ==
    [][ (chk.pc = "loop" /\ chk.start + chk.chunk_size < Len(chk.memo)) =>
            LET window == PySlice(chk.memo, chk.start, chk.start + chk.chunk_size)
                last == Max(RFind(window, "."), RFind(window, "\n"))
                end == chk'.start + chk.overlap
            IN end = IF last > chk.chunk_size \div 2
                     THEN chk.start + last + 1
                     ELSE chk.start + chk.chunk_size ]_vars

-----------------------------------------------------------------------------
(* IndexRepoAgent: eligibility for structural analysis                     *)

analyzable_extensions ==
    { Chars(".py"), Chars(".js"), Chars(".ts"), Chars(".jsx"), Chars(".tsx"),
      Chars(".java"), Chars(".cpp"), Chars(".c"), Chars(".h"), Chars(".cs"),
      Chars(".php"), Chars(".rb"), Chars(".go"), Chars(".rs"), Chars(".kt"),
      Chars(".scala"), Chars(".swift"), Chars(".vue"), Chars(".svelte"),
      Chars(".dart"), Chars(".r"), Chars(".jl"), Chars(".m"), Chars(".mm") }

documentation_extensions ==
    { Chars(".md"), Chars(".txt"), Chars(".rst"), Chars(".org"), Chars(".adoc") }

skip_patterns ==
    << Chars("test"), Chars("spec"), Chars("__test__"), Chars(".test."), Chars(".spec."),
       Chars("mock"), Chars("fixture"), Chars("sample"), Chars("example"),
       Chars("vendor"), Chars("third_party"), Chars("external"),
       Chars("generated"), Chars("auto"), Chars("build"), Chars("dist"),
       Chars("min.js"), Chars("min.css"), Chars("bundle.js"), Chars("bundle.css"),
       Chars("lock.json"), Chars("package-lock.json"), Chars("yarn.lock"),
       Chars("migration"), Chars("seed"), Chars("schema.sql") >>

priority_dirs ==
    << Chars("src"), Chars("lib"), Chars("app"), Chars("components"), Chars("pages"),
       Chars("views"), Chars("controllers"), Chars("models"), Chars("services") >>

\* the skip-pattern loop of _should_analyze_file (main.py 1017-1019)
MatchesSkipPattern(file_info) ==
    LET file_path == Lower(file_info.path)
        file_name == Lower(file_info.name)
    IN \E k \in 1..Len(skip_patterns) :
          \/ Contains(file_path, skip_patterns[k])
          \/ Contains(file_name, skip_patterns[k])

_should_analyze_file(file_info) ==
    LET file_path == Lower(file_info.path)
        extension == file_info.extension
        category == file_info.category
    IN IF extension \in documentation_extensions \/ category = "documentation"
       THEN ~(file_info.size > 100000)
       ELSE IF extension \in analyzable_extensions
            THEN IF MatchesSkipPattern(file_info) THEN FALSE
                 ELSE IF file_info.size < 50 \/ file_info.size > 500000 THEN FALSE
                 ELSE LET has_priority_dir ==
                              \E k \in 1..Len(priority_dirs) :
                                  Contains(file_path, priority_dirs[k])
                      IN ~(~has_priority_dir /\ category # "code")
            ELSE FALSE

\* the filter of _analyze_with_ast (main.py 216-219)
IsAnalyzable(file_info) ==
    file_info.size < max_file_size /\ _should_analyze_file(file_info)

\* the file record _scan_files builds for a file (main.py 1134-1141)
FileInfo(root, rel, size) ==
    [path |-> FullPath(root, rel), relative_path |-> rel, name |-> PathName(rel),
     extension |-> Lower(PathSuffix(rel)), size |-> size,
     category |-> _categorize_file(rel)]

\* C28: for every text and every pair of parameters with
\* 0 <= overlap < chunk_size, the window start strictly increases on every
\* iteration of the loop; the loop ends once start reaches the length of
\* the text, so a start that always increases makes the chunker terminate.
C28_StartStrictlyIncreases ==
    [][ chk.pc = "loop" => chk'.start > chk.start ]_vars

-----------------------------------------------------------------------------
(* Specification SpecEligible: the analyze-stage filter on one file record *)

EligibleRoots == { Chars("/w/r1"), Chars("/w/lib/r1"), Chars("/w/tests/r1") }

EligibleRels ==
    { Chars("src/main.py"), Chars("a.py"), Chars("lib/x.vue"), Chars("x.vue"),
      Chars("README.md"), Chars("src/auto.py"), Chars("conf.json") }

EligibleSizes == {40, 49, 50, 260, 99999, 100000, 250000, 260000, 500000, 500001}

InitEligible ==
    /\ \E root \in EligibleRoots, rel \in EligibleRels, size \in EligibleSizes :
          elg = [pc |-> "start", file_info |-> FileInfo(root, rel, size), result |-> FALSE]
    /\ ign = IgnIdle /\ scn = ScnIdle /\ chk = ChkIdle /\ pln = PlnIdle
    /\ PipelineIdle

EligibleCheck ==
    /\ elg.pc = "start"
    /\ elg' = [elg EXCEPT !.pc = "done", !.result = IsAnalyzable(elg.file_info)]
    /\ UNCHANGED <<ign, scn, chk, pln, node, state, fs, store, steps>>

NextEligible == EligibleCheck

SpecEligible == InitEligible /\ [][NextEligible]_vars

\* a code-category file with a recognized source extension and no
\* skip-pattern match
PlainCodeFile(file_info) ==
    /\ file_info.category = "code"
    /\ file_info.extension \in analyzable_extensions
    /\ ~MatchesSkipPattern(file_info)

\* C8: under the default configuration a plain code file of 250,000 to
\* 260,000 bytes is eligible for structural analysis, and an otherwise
\* identical 40-byte file is not.
C8_SizeEligibility ==
    (elg.pc = "done" /\ PlainCodeFile(elg.file_info))
        => /\ (elg.file_info.size \in 250000..260000 => elg.result)
           /\ (elg.file_info.size = 40 => ~elg.result)

-----------------------------------------------------------------------------
(* IntelligentStructureAnalyzer                                            *)
(* ast_analysis is a dict in insertion order: a sequence of                *)
(* [file, analysis] with analysis = [classes, apis]; a class is            *)
(* [name, bases], an endpoint is [path].                                   *)

component_patterns ==
    << [type |-> "agents", patterns |-> <<Chars("agent"), Chars("worker"), Chars("processor")>>],
       [type |-> "managers", patterns |-> <<Chars("manager"), Chars("controller"),
                                            Chars("coordinator"), Chars("supervisor")>>],
       [type |-> "services", patterns |-> <<Chars("service"), Chars("provider"),
                                            Chars("handler"), Chars("gateway")>>],
       [type |-> "clients", patterns |-> <<Chars("client"), Chars("connector"),
                                           Chars("adapter"), Chars("driver")>>],
       [type |-> "models", patterns |-> <<Chars("model"), Chars("schema"),
                                          Chars("entity"), Chars("dto")>>],
       [type |-> "utilities", patterns |-> <<Chars("util"), Chars("helper"),
                                             Chars("tool"), Chars("common")>>],
       [type |-> "configurations", patterns |-> <<Chars("config"), Chars("setting"),
                                                  Chars("option"), Chars("env")>>],
       [type |-> "databases", patterns |-> <<Chars("db"), Chars("database"), Chars("storage"),
                                             Chars("repository"), Chars("dao")>>],
       [type |-> "apis", patterns |-> <<Chars("api"), Chars("router"),
                                        Chars("endpoint"), Chars("route")>>],
       [type |-> "ui_components", patterns |-> <<Chars("component"), Chars("widget"),
                                                 Chars("view"), Chars("page")>>] >>

\* the component type of a class: the first pattern group with a hit
ComponentTypeOf(cls) ==
    LET cls_name == Lower(cls.name)
        hits == {k \in 1..Len(component_patterns) :
                    \E j \in 1..Len(component_patterns[k].patterns) :
                        Contains(cls_name, component_patterns[k].patterns[j])}
    IN IF hits = {} THEN "other"
       ELSE component_patterns[CHOOSE k \in hits : \A m \in hits : k <= m].type

RECURSIVE AllClasses(_)
AllClasses(ast_analysis) ==
    IF ast_analysis = <<>> THEN <<>>
    ELSE Head(ast_analysis).analysis.classes \o AllClasses(Tail(ast_analysis))

RECURSIVE AllApis(_)
AllApis(ast_analysis) ==
    IF ast_analysis = <<>> THEN <<>>
    ELSE Head(ast_analysis).analysis.apis \o AllApis(Tail(ast_analysis))

_analyze_components(ast_analysis) ==
    LET classes == AllClasses(ast_analysis)
    IN [component_types |-> {ComponentTypeOf(classes[i]) : i \in 1..Len(classes)},
        inheritance_graph |-> \E i \in 1..Len(classes) : classes[i].bases # <<>>,
        api_endpoints |-> AllApis(ast_analysis),
        total_classes |-> Len(classes)]

ContainsAny(text, words) == \E k \in 1..Len(words) : Contains(text, words[k])

_analyze_file_patterns(file_contents) ==
    LET files == {file_contents[i] : i \in 1..Len(file_contents)}
    IN [has_cli |-> \E f \in files :
                    ContainsAny(Lower(f.content), <<Chars("click"), Chars("argparse"),
                                                    Chars("commander"), Chars("yargs")>>),
        has_tests |-> \E f \in files :
                    \/ ContainsAny(Lower(f.content), <<Chars("pytest"), Chars("unittest"),
                                                       Chars("jest"), Chars("mocha")>>)
                    \/ Contains(Lower(f.path), Chars("test")),
        has_docker |-> \E f \in files :
                    \/ Contains(Lower(f.name), Chars("dockerfile"))
                    \/ Contains(Lower(f.name), Chars("docker-compose")),
        has_ci_cd |-> \E f \in files :
                    \/ Contains(f.path, Chars(".github"))
                    \/ Contains(f.path, Chars(".gitlab"))
                    \/ Contains(Lower(f.name), Chars("ci"))]

\* a section named by a literal
Section(name) == [name |-> Chars(name)]

\* a section whose name is computed
NamedSection(name) == [name |-> name]

Folder(name, sections) == [name |-> name, sections |-> sections]

_generate_architecture_sections(component_analysis) ==
    <<Section("overview"), Section("components")>>
    \o (IF component_analysis.api_endpoints # <<>> \/ component_analysis.total_classes > 10
        THEN <<Section("data-flow")>> ELSE <<>>)
    \o (IF component_analysis.inheritance_graph \/ component_analysis.total_classes > 5
        THEN <<Section("patterns")>> ELSE <<>>)

_generate_component_folders(component_analysis) ==
    LET component_types == component_analysis.component_types
        business_sections ==
            (IF "agents" \in component_types THEN <<Section("agents")>> ELSE <<>>)
            \o (IF "managers" \in component_types THEN <<Section("managers")>> ELSE <<>>)
            \o (IF "services" \in component_types THEN <<Section("services")>> ELSE <<>>)
        data_sections ==
            (IF "models" \in component_types THEN <<Section("models")>> ELSE <<>>)
            \o (IF "databases" \in component_types THEN <<Section("databases")>> ELSE <<>>)
            \o (IF "clients" \in component_types THEN <<Section("clients")>> ELSE <<>>)
    IN (IF business_sections # <<>>
        THEN <<Folder("components", business_sections)>> ELSE <<>>)
       \o (IF data_sections # <<>> THEN <<Folder("data", data_sections)>> ELSE <<>>)

\* the group of an endpoint path: the segment after /api/, else 'general'
EndpointGroup(endpoint) ==
    LET parts == Split(endpoint.path, "/")
    IN IF StartsWith(endpoint.path, Chars("/api/"))
       THEN (IF Len(parts) > 2 THEN parts[3] ELSE Chars("general"))
       ELSE Chars("general")

RECURSIVE GroupOrder(_, _)
\* keys of endpoint_groups in first-insertion order
GroupOrder(api_endpoints, seen) ==
    IF api_endpoints = <<>> THEN seen
    ELSE LET g == EndpointGroup(Head(api_endpoints))
         IN GroupOrder(Tail(api_endpoints),
                       IF g \in SeqToSet(seen) THEN seen ELSE Append(seen, g))

_generate_api_sections(api_endpoints) ==
    LET groups == GroupOrder(api_endpoints, <<>>)
        count(g) == Cardinality({i \in 1..Len(api_endpoints) :
                                    EndpointGroup(api_endpoints[i]) = g})
        extra == SelectSeq(groups, LAMBDA g : g # Chars("general") /\ count(g) > 1)
    IN <<Section("overview"), Section("endpoints")>>
       \o [i \in 1..Len(extra) |-> NamedSection(extra[i] \o Chars("-endpoints"))]

_generate_cli_sections == <<Section("overview"), Section("commands"), Section("examples")>>

_generate_deployment_sections(file_pattern_analysis) ==
    (IF file_pattern_analysis.has_docker THEN <<Section("docker")>> ELSE <<>>)
    \o (IF file_pattern_analysis.has_ci_cd THEN <<Section("ci-cd")>> ELSE <<>>)
    \o <<Section("production")>>

_generate_development_sections(file_pattern_analysis) ==
    <<Section("setup"), Section("workflow")>>
    \o (IF file_pattern_analysis.has_tests THEN <<Section("testing")>> ELSE <<>>)
    \o <<Section("contributing")>>

_generate_intelligent_folders(component_analysis, file_pattern_analysis) ==
    <<Folder("architecture", _generate_architecture_sections(component_analysis))>>
    \o _generate_component_folders(component_analysis)
    \o (IF component_analysis.api_endpoints # <<>>
        THEN <<Folder("apis", _generate_api_sections(component_analysis.api_endpoints))>>
        ELSE <<>>)
    \o (IF file_pattern_analysis.has_cli
        THEN <<Folder("cli", _generate_cli_sections)>> ELSE <<>>)
    \o (IF file_pattern_analysis.has_docker \/ file_pattern_analysis.has_ci_cd
        THEN <<Folder("deployment", _generate_deployment_sections(file_pattern_analysis))>>
        ELSE <<>>)
    \o <<Folder("development", _generate_development_sections(file_pattern_analysis))>>

analyze_repository_structure(ast_analysis, file_contents) ==
    _generate_intelligent_folders(_analyze_components(ast_analysis),
                                  _analyze_file_patterns(file_contents))

-----------------------------------------------------------------------------
(* DocumentationGenerator: the documentation structure and its fallbacks   *)
(* llm = [inference, outline, readme_ok, sections_ok] are the outcomes of  *)
(* the collaborators during one call: whether the inference pass raises,   *)
(* what the outline request produces, whether the README and the section   *)
(* requests succeed.  An outline outcome is [kind, has_folders, folders]   *)
(* with kind "raise" (chat_completion raised), "unparseable"               *)
(* (JSONDecodeError), "not_object" (valid JSON that is not an object) or   *)
(* "json"; a folder of the JSON is [wellformed, name, sections], not       *)
(* wellformed when a required key is missing (KeyError).                   *)

\* _generate_readme: the generated text, or the fixed failure text
_generate_readme(llm) == IF llm.readme_ok THEN "generated" ELSE "Failed to generate README"

_has_apis(ast_analysis) ==
    \E i \in 1..Len(ast_analysis) : ast_analysis[i].analysis.apis # <<>>

_create_default_structure(ast_analysis, llm) ==
    [readme |-> _generate_readme(llm),
     folders |->
        << Folder("architecture", <<Section("overview"), Section("components"),
                                   Section("data-flow"), Section("patterns")>>),
           Folder("components", <<Section("core"), Section("utilities")>>
                                \o (IF _has_apis(ast_analysis)
                                    THEN <<Section("api")>> ELSE <<>>)),
           Folder("development", <<Section("setup"), Section("workflow"),
                                   Section("testing"), Section("contributing")>>) >>]

_generate_ai_fallback_structure(ast_analysis, llm) ==
    LET outline == llm.outline
        folders_data == IF outline.has_folders THEN outline.folders ELSE <<>>
    IN IF outline.kind # "json"
       THEN _create_default_structure(ast_analysis, llm)
       ELSE IF \E i \in 1..Len(folders_data) : ~folders_data[i].wellformed
            THEN _create_default_structure(ast_analysis, llm)
            ELSE [readme |-> _generate_readme(llm),
                  folders |-> [i \in 1..Len(folders_data) |->
                                  Folder(folders_data[i].name,
                                         [j \in 1..Len(folders_data[i].sections) |->
                                             Section(folders_data[i].sections[j])])]]

generate_documentation_structure(ast_analysis, file_contents, llm) ==
    IF llm.inference = "ok"
    THEN [readme |-> _generate_readme(llm),
          folders |-> analyze_repository_structure(ast_analysis, file_contents)]
    ELSE _generate_ai_fallback_structure(ast_analysis, llm)

-----------------------------------------------------------------------------
(* Specification SpecPlan: generate_documentation_structure               *)

MaxJsonFolders == 2

MaxAstFiles == 2

AstEntries ==
    { [file |-> Chars("src/agent.py"),
       analysis |-> [classes |-> <<[name |-> Chars("ChatAgent"), bases |-> <<>>]>>,
                     apis |-> <<>>]],
      [file |-> Chars("api/routes.py"),
       analysis |-> [classes |-> <<>>,
                     apis |-> <<[path |-> Chars("/api/users/a")],
                                [path |-> Chars("/api/users/b")]>>]],
      [file |-> Chars("db.py"),
       analysis |-> [classes |-> <<[name |-> Chars("UserModel"),
                                    bases |-> <<Chars("Base")>>]>>,
                     apis |-> <<[path |-> Chars("/health")]>>]] }

ContentFile(root, rel, size, content) ==
    [path |-> rel, name |-> PathName(rel), extension |-> Lower(PathSuffix(rel)),
     size |-> size, category |-> _categorize_file(rel), content |-> content]

FileContentsChoices ==
    { <<>>,
      <<ContentFile(RepoRoot, Chars("src/cli.py"), 300, Chars("import click"))>>,
      <<ContentFile(RepoRoot, Chars("Dockerfile"), 80, Chars("FROM python"))>>,
      <<ContentFile(RepoRoot, Chars("src/test_a.py"), 90, Chars("import pytest")),
        ContentFile(RepoRoot, Chars("ci.py"), 70, Chars("run"))>> }

JsonFolders ==
    { [wellformed |-> TRUE, name |-> "architecture", sections |-> <<"overview">>],
      [wellformed |-> TRUE, name |-> "guide", sections |-> <<>>],
      [wellformed |-> FALSE, name |-> "", sections |-> <<>>] }

OutlineOutcomes ==
    {[kind |-> k, has_folders |-> FALSE, folders |-> <<>>] :
        k \in {"raise", "unparseable", "not_object", "json"}}
    \cup {[kind |-> "json", has_folders |-> TRUE, folders |-> f] :
             f \in SeqsUpTo(JsonFolders, MaxJsonFolders)}

LlmOutcomes ==
    [inference : {"ok", "raise"}, outline : OutlineOutcomes,
     readme_ok : BOOLEAN, sections_ok : BOOLEAN]

InitPlan ==
    /\ \E ast \in {a \in SeqsUpTo(AstEntries, MaxAstFiles) : IsInjective(a)},
          files \in FileContentsChoices, llm \in LlmOutcomes :
          pln = [pc |-> "start", ast_analysis |-> ast, file_contents |-> files,
                 llm |-> llm, result |-> [readme |-> "", folders |-> <<>>]]
    /\ ign = IgnIdle /\ scn = ScnIdle /\ chk = ChkIdle /\ elg = ElgIdle
    /\ PipelineIdle

Plan ==
    /\ pln.pc = "start"
    /\ pln' = [pln EXCEPT !.pc = "done",
                          !.result = generate_documentation_structure(
                                         pln.ast_analysis, pln.file_contents, pln.llm)]
    /\ UNCHANGED <<ign, scn, chk, elg, node, state, fs, store, steps>>

NextPlan == Plan

SpecPlan == InitPlan /\ [][NextPlan]_vars

\* C6: generate_documentation_structure returns at least one folder for
\* every input and every outcome of the fallback tiers.
C6_NeverZeroFolders ==
    pln.pc = "done" => Len(pln.result.folders) >= 1

-----------------------------------------------------------------------------
(* IndexRepoAgent: the directories on disk and the collaborators' outcomes *)

MaxRepos == 3

\* an entry of a repository directory: what the walk sees, the file's text,
\* and the facts ASTAnalyzer.analyze_file extracts from that text
SourceFile(rel, size, content, classes, apis) ==
    [rel |-> rel, size |-> size, is_file |-> TRUE, stat_ok |-> TRUE,
     content |-> content, facts |-> [classes |-> classes, apis |-> apis]]

MissingDir == [exists |-> FALSE, entries |-> <<>>, gitignore |-> <<>>]

RepoPathPool == { Chars("/w/a"), Chars("/x/a"), Chars("/w/tiny"), Chars("/w/gone") }

\* the directory found at a repository path
RepoDir(repo_path) ==
    IF repo_path = Chars("/w/a")
    THEN [exists |-> TRUE, gitignore |-> <<Chars("*.bak")>>,
          entries |-> << SourceFile(Chars("src/agent.py"), 300, Chars("import click"),
                                    <<[name |-> Chars("ChatAgent"), bases |-> <<>>]>>,
                                    <<[path |-> Chars("/api/users/a")],
                                      [path |-> Chars("/api/users/b")]>>),
                         SourceFile(Chars("old.bak"), 90, Chars("x"), <<>>, <<>>) >>]
    ELSE IF repo_path = Chars("/x/a")
    THEN [exists |-> TRUE, gitignore |-> <<>>,
          entries |-> << SourceFile(Chars("main.py"), 260, Chars("print"), <<>>, <<>>) >>]
    ELSE IF repo_path = Chars("/w/tiny")
    THEN [exists |-> TRUE, gitignore |-> <<>>,
          entries |-> << SourceFile(Chars("a.py"), 40, Chars("x"), <<>>, <<>>) >>]
    ELSE IF repo_path = Chars("/w/many")
    THEN [exists |-> TRUE, gitignore |-> <<>>,
          entries |-> << SourceFile(Chars("util.py"), 280, Chars("x"), <<>>, <<>>),
                         SourceFile(Chars("main.py"), 260, Chars("print"), <<>>, <<>>),
                         SourceFile(Chars("src/core.py"), 300, Chars("import os"),
                                    <<>>, <<>>) >>]
    ELSE IF repo_path = Chars("/w/api")
    THEN [exists |-> TRUE, gitignore |-> <<>>,
          entries |-> << SourceFile(Chars("users.py"), 300, Chars("import flask"), <<>>,
                                    <<[path |-> Chars("/api/users/a")],
                                      [path |-> Chars("/api/users/b")]>>),
                         SourceFile(Chars("orders.py"), 280, Chars("import flask"), <<>>,
                                    <<[path |-> Chars("/api/orders/a")],
                                      [path |-> Chars("/api/orders/b")]>>) >>]
    ELSE MissingDir

\* the entry of the directory that a file record was built from
EntryOf(repo_path, relative_path) ==
    LET entries == RepoDir(repo_path).entries
    IN entries[CHOOSE i \in 1..Len(entries) : entries[i].rel = relative_path]

NoFolders == [kind |-> "raise", has_folders |-> FALSE, folders |-> <<>>]

\* outcomes of the text-generation service and of the inference pass used
\* for the pipeline runs
PipelineLlm ==
    { [inference |-> "ok", outline |-> NoFolders, readme_ok |-> TRUE, sections_ok |-> TRUE],
      [inference |-> "raise", outline |-> NoFolders, readme_ok |-> FALSE, sections_ok |-> FALSE],
      [inference |-> "raise",
       outline |-> [kind |-> "json", has_folders |-> FALSE, folders |-> <<>>],
       readme_ok |-> TRUE, sections_ok |-> TRUE] }

-----------------------------------------------------------------------------
(* IndexRepoAgent: the workflow state (IndexState) and its steps           *)

NoStructure == [present |-> FALSE, readme |-> "", folders |-> <<>>]

NoDocs == [present |-> FALSE, readme |-> "", folders |-> <<>>]

NoMetadata == [present |-> FALSE, repo_path |-> <<>>, repo_name |-> <<>>]

\* index_repositories: initial_state
InitialState(repo_paths, output_dir) ==
    [repo_paths |-> repo_paths, current_repo_index |-> 0, current_repo_path |-> <<>>,
     repo_files |-> <<>>, ast_analysis |-> <<>>, generated_docs |-> NoDocs,
     documentation_structure |-> NoStructure, repo_metadata |-> NoMetadata,
     all_docs |-> <<>>, general_memo |-> "", success |-> FALSE, error |-> "None",
     output_dir |-> output_dir]

\* a step of the workflow that has run: the node, the repository index it
\* ran for, the collaborator failures it met, and the error field it left
Ran(n, faults, new_state) ==
    Append(steps, [node |-> n, index |-> state.current_repo_index,
                   faults |-> faults, error |-> new_state.error])

\* the collaborators (disk, worker pool, text generation, vector store) fail
\* in at most one step of a run
NoFaultYet == \A k \in 1..Len(steps) : steps[k].faults = {}

_initialize ==
    /\ node = "initialize"
    /\ LET new_state == [state EXCEPT !.current_repo_index = 0, !.all_docs = <<>>,
                                      !.success = FALSE, !.error = "None"]
       IN /\ state' = new_state
          /\ steps' = Ran("initialize", {}, new_state)
    /\ node' = "scan_repo"
    /\ UNCHANGED <<ign, scn, chk, elg, pln, fs, store>>

_get_repo_metadata(repo_path) ==
    [present |-> TRUE, repo_path |-> repo_path, repo_name |-> PathName(repo_path)]

_scan_repository ==
    /\ node = "scan_repo"
    /\ \E raises \in BOOLEAN :
          LET repo_paths == state.repo_paths
              current_index == state.current_repo_index
              repo_path == repo_paths[current_index + 1]
              new_state ==
                  IF current_index >= Len(repo_paths)
                  THEN [state EXCEPT !.error = "Index out of bounds"]
                  ELSE IF ~RepoDir(repo_path).exists
                  THEN [state EXCEPT !.error = "Repository path does not exist"]
                  ELSE IF raises
                  THEN [state EXCEPT !.error = "Failed to scan repository"]
                  ELSE [state EXCEPT
                           !.current_repo_path = repo_path,
                           !.repo_files = _scan_files([path |-> repo_path,
                                              entries |-> RepoDir(repo_path).entries,
                                              gitignore |-> RepoDir(repo_path).gitignore]),
                           !.repo_metadata = _get_repo_metadata(repo_path)]
              failed == /\ current_index < Len(repo_paths)
                        /\ RepoDir(repo_path).exists
                        /\ raises
          IN /\ (raises => failed /\ NoFaultYet)
             /\ state' = new_state
             /\ steps' = Ran("scan_repo", IF failed THEN {"scan"} ELSE {}, new_state)
    /\ node' = "analyze_ast"
    /\ UNCHANGED <<ign, scn, chk, elg, pln, fs, store>>

\* _file_analysis_priority: the sort key used when the analysis is capped
_file_analysis_priority(file_info) ==
    LET file_path == Lower(file_info.path)
        file_name == Lower(file_info.name)
        important_files == { Chars("main.py"), Chars("app.py"), Chars("index.js"),
                             Chars("main.js"), Chars("server.js"), Chars("__init__.py") }
        dirs == << Chars("src/"), Chars("lib/"), Chars("app/"),
                   Chars("components/"), Chars("pages/") >>
    IN IF file_name \in important_files THEN <<0, 0 - file_info.size>>
       ELSE IF ContainsAny(file_path, dirs) THEN <<1, 0 - file_info.size>>
       ELSE IF file_info.category = "code" THEN <<2, 0 - file_info.size>>
       ELSE IF file_info.category = "config" THEN <<3, 0 - file_info.size>>
       ELSE <<4, 0 - file_info.size>>

RECURSIVE InsertByAnalysisPriority(_, _)
InsertByAnalysisPriority(sorted, x) ==
    IF sorted = <<>> THEN <<x>>
    ELSE IF TupleLess(_file_analysis_priority(x), _file_analysis_priority(Head(sorted)))
         THEN <<x>> \o sorted
         ELSE <<Head(sorted)>> \o InsertByAnalysisPriority(Tail(sorted), x)

RECURSIVE SortByAnalysisPriority(_)
\* sorted(analyzable_files, key=self._file_analysis_priority): stable
SortByAnalysisPriority(files) ==
    IF files = <<>> THEN <<>>
    ELSE InsertByAnalysisPriority(SortByAnalysisPriority(SubSeq(files, 1, Len(files) - 1)),
                                  files[Len(files)])

analysis_file_cap == 5000

pool_workers == 4

\* a cut of the list to its first cap entries, without the priority sort
FirstFiles(analyzable_files, cap) ==
    IF Len(analyzable_files) > cap
    THEN SubSeq(analyzable_files, 1, cap)
    ELSE analyzable_files

\* sorted(analyzable_files, key=self._file_analysis_priority)[:cap] when the
\* list is longer than cap
LimitTo(analyzable_files, cap) ==
    IF Len(analyzable_files) > cap
    THEN SubSeq(SortByAnalysisPriority(analyzable_files), 1, cap)
    ELSE analyzable_files

\* the cap on the files handed to the worker pool
LimitedFiles(analyzable_files) == LimitTo(analyzable_files, analysis_file_cap)

\* the files handed to the worker pool
SubmittedFiles(repo_files) == LimitedFiles(SelectSeq(repo_files, IsAnalyzable))

\* an analysis stage that gives up as soon as one file fails
_analyze_all_or_nothing ==
    /\ node = "analyze_ast"
    /\ LET analyzable_files == SelectSeq(state.repo_files, IsAnalyzable)
           max_workers == Min(pool_workers, Len(analyzable_files))
           submitted == LimitedFiles(analyzable_files)
       IN \E completed \in {q \in SeqsUpTo(1..Len(submitted), Len(submitted)) :
                               IsInjective(q)} :
             LET ast_analysis ==
                     [k \in 1..Len(completed) |->
                         [file |-> submitted[completed[k]].relative_path,
                          analysis |-> EntryOf(state.current_repo_path,
                                          submitted[completed[k]].relative_path).facts]]
                 new_state ==
                     IF max_workers <= 0 \/ Len(completed) < Len(submitted)
                     THEN [state EXCEPT !.error = "Failed to perform AST analysis"]
                     ELSE [state EXCEPT !.ast_analysis = ast_analysis]
             IN /\ (Len(completed) < Len(submitted) => NoFaultYet)
                /\ state' = new_state
                /\ steps' = Ran("analyze_ast",
                                IF Len(completed) < Len(submitted) THEN {"read"} ELSE {},
                                new_state)
    /\ node' = "generate_structure"
    /\ UNCHANGED <<ign, scn, chk, elg, pln, fs, store>>

\* the workers finish in any order, and a file whose read or analysis fails
\* yields nothing: completed lists the files that yielded a result, in the
\* order their results arrived
_analyze_with_ast ==
    /\ node = "analyze_ast"
    /\ LET analyzable_files == SelectSeq(state.repo_files, IsAnalyzable)
           max_workers == Min(pool_workers, Len(analyzable_files))
           submitted == LimitedFiles(analyzable_files)
       IN \E completed \in {q \in SeqsUpTo(1..Len(submitted), Len(submitted)) :
                               IsInjective(q)} :
             LET ast_analysis ==
                     [k \in 1..Len(completed) |->
                         [file |-> submitted[completed[k]].relative_path,
                          analysis |-> EntryOf(state.current_repo_path,
                                          submitted[completed[k]].relative_path).facts]]
                 new_state ==
                     IF max_workers <= 0
                     THEN [state EXCEPT !.error = "Failed to perform AST analysis"]
                     ELSE [state EXCEPT !.ast_analysis = ast_analysis]
             IN /\ (Len(completed) < Len(submitted) => NoFaultYet)
                /\ state' = new_state
                /\ steps' = Ran("analyze_ast",
                                IF Len(completed) < Len(submitted) THEN {"read"} ELSE {},
                                new_state)
    /\ node' = "generate_structure"
    /\ UNCHANGED <<ign, scn, chk, elg, pln, fs, store>>

\* _prepare_file_contents: the text of every file that passes the filter
_prepare_file_contents(repo_files, repo_path) ==
    LET kept == SelectSeq(repo_files, IsAnalyzable)
    IN [k \in 1..Len(kept) |->
           [path |-> kept[k].relative_path, name |-> kept[k].name,
            extension |-> kept[k].extension, size |-> kept[k].size,
            category |-> kept[k].category,
            content |-> EntryOf(repo_path, kept[k].relative_path).content]]

\* the collaborator failures met while a documentation structure is built
StructureFaults(llm) ==
    (IF llm.inference = "raise" THEN {"inference"} ELSE {})
    \cup (IF (llm.inference = "raise" /\ llm.outline.kind = "raise") \/ ~llm.readme_ok
          THEN {"llm"} ELSE {})

\* a planning stage that empties the analysis map it was given
_generate_structure_draining ==
    /\ node = "generate_structure"
    /\ LET file_contents == _prepare_file_contents(state.repo_files,
                                                  state.current_repo_path)
       IN \E llm \in PipelineLlm :
          LET doc_structure == generate_documentation_structure(state.ast_analysis,
                                                                file_contents, llm)
              new_state == [state EXCEPT !.documentation_structure =
                                [present |-> TRUE, readme |-> doc_structure.readme,
                                 folders |-> doc_structure.folders],
                                         !.ast_analysis = <<>>]
          IN /\ (StructureFaults(llm) # {} => NoFaultYet)
             /\ state' = new_state
             /\ steps' = Ran("generate_structure", StructureFaults(llm), new_state)
    /\ node' = "generate_folder_docs"
    /\ UNCHANGED <<ign, scn, chk, elg, pln, fs, store>>

_generate_structure ==
    /\ node = "generate_structure"
    /\ LET file_contents == _prepare_file_contents(state.repo_files,
                                                  state.current_repo_path)
       IN \E llm \in PipelineLlm :
          LET doc_structure == generate_documentation_structure(state.ast_analysis,
                                                                file_contents, llm)
              new_state == [state EXCEPT !.documentation_structure =
                                [present |-> TRUE, readme |-> doc_structure.readme,
                                 folders |-> doc_structure.folders]]
          IN /\ (StructureFaults(llm) # {} => NoFaultYet)
             /\ state' = new_state
             /\ steps' = Ran("generate_structure", StructureFaults(llm), new_state)
    /\ node' = "generate_folder_docs"
    /\ UNCHANGED <<ign, scn, chk, elg, pln, fs, store>>

\* a dict kept in insertion order: d[key] = value
DictSet(d, key, value) ==
    IF \E i \in 1..Len(d) : d[i].key = key
    THEN [i \in 1..Len(d) |-> IF d[i].key = key THEN [key |-> key, value |-> value]
                                                 ELSE d[i]]
    ELSE Append(d, [key |-> key, value |-> value])

DictHas(d, key) == \E i \in 1..Len(d) : d[i].key = key

DictGet(d, key) == d[CHOOSE i \in 1..Len(d) : d[i].key = key].value

\* _generate_base_section_content: the generated text, or the fixed failure text
generate_section_content(llm) ==
    IF llm.sections_ok THEN "generated" ELSE "Content generation failed"

RECURSIVE SectionFiles(_, _, _)
\* folder_content[section.name + ".md"] = section_content, for each section
SectionFiles(folder_content, sections, llm) ==
    IF sections = <<>> THEN folder_content
    ELSE SectionFiles(DictSet(folder_content, Head(sections).name \o Chars(".md"),
                              generate_section_content(llm)),
                      Tail(sections), llm)

RECURSIVE FolderFiles(_, _, _)
\* result["folders"][folder.name] = folder_content, for each folder
FolderFiles(result, folders, llm) ==
    IF folders = <<>> THEN result
    ELSE FolderFiles(DictSet(result, Head(folders).name,
                             SectionFiles(<<[key |-> Chars("README.md"), value |-> "index"]>>,
                                          Head(folders).sections, llm)),
                     Tail(folders), llm)

generate_folder_structure(ast_analysis, file_contents, llm) ==
    LET doc_structure == generate_documentation_structure(ast_analysis, file_contents, llm)
    IN [present |-> TRUE, readme |-> doc_structure.readme,
        folders |-> FolderFiles(<<>>, doc_structure.folders, llm)]

\* _generate_detailed_file_docs and its batches: the generated text, the
\* per-batch fallback text, or the step's fixed text when grouping the
\* files by category raises
_generate_detailed_file_docs(file_contents, llm) ==
    IF \E i \in 1..Len(file_contents) :
           file_contents[i].category \notin {"code", "config", "documentation", "other"}
    THEN "Detailed file documentation generation failed"
    ELSE IF file_contents = <<>> \/ llm.sections_ok THEN "generated"
    ELSE "AI documentation generation failed"

_create_fallback_readme == "fallback readme"

_create_fallback_documentation ==
    [present |-> TRUE, readme |-> _create_fallback_readme,
     folders |->
        << [key |-> "architecture",
            value |-> << [key |-> Chars("README.md"), value |-> "index"],
                         [key |-> Chars("overview.md"), value |-> "fallback"],
                         [key |-> Chars("components.md"), value |-> "fallback"],
                         [key |-> Chars("structure.md"), value |-> "fallback"] >>],
           [key |-> "components",
            value |-> << [key |-> Chars("README.md"), value |-> "index"],
                         [key |-> Chars("core.md"), value |-> "fallback"],
                         [key |-> Chars("utilities.md"), value |-> "fallback"] >>],
           [key |-> "development",
            value |-> << [key |-> Chars("README.md"), value |-> "index"],
                         [key |-> Chars("setup.md"), value |-> "fallback"],
                         [key |-> Chars("workflow.md"), value |-> "fallback"],
                         [key |-> Chars("contributing.md"), value |-> "fallback"] >>] >>]

_generate_folder_docs ==
    /\ node = "generate_folder_docs"
    /\ LET file_contents == _prepare_file_contents(state.repo_files,
                                                  state.current_repo_path)
       IN \E llm \in PipelineLlm :
          LET detailed_file_docs == _generate_detailed_file_docs(file_contents, llm)
              generated == generate_folder_structure(state.ast_analysis,
                                                     file_contents, llm)
              with_components ==
                  IF DictHas(generated.folders, "components") THEN generated.folders
                  ELSE DictSet(generated.folders, "components", <<>>)
              folder_docs ==
                  [generated EXCEPT !.folders =
                      DictSet(with_components, "components",
                              DictSet(DictGet(with_components, "components"),
                                      Chars("file-documentation.md"), detailed_file_docs))]
              section_calls == \E i \in 1..Len(generated.folders) :
                                   Len(generated.folders[i].value) > 1
              faults == StructureFaults(llm)
                        \cup (IF ~llm.sections_ok
                                 /\ (section_calls \/ file_contents # <<>>)
                              THEN {"llm"} ELSE {})
              new_state == [state EXCEPT !.generated_docs = folder_docs]
          IN /\ (faults # {} => NoFaultYet)
             /\ state' = new_state
             /\ steps' = Ran("generate_folder_docs", faults, new_state)
    /\ node' = "write_docs"
    /\ UNCHANGED <<ign, scn, chk, elg, pln, fs, store>>

\* output_dir / Path(repo_path).name
JoinPath(dir, name) == IF name = <<>> THEN dir ELSE dir \o Chars("/") \o name

\* fs lists the documentation trees written so far: the directory and the
\* repository it was written for
_write_documentation_files ==
    /\ node = "write_docs"
    /\ \E write_ok \in BOOLEAN :
          LET repo_path == state.current_repo_path
              generated_docs == IF ~state.generated_docs.present
                                THEN _create_fallback_documentation
                                ELSE state.generated_docs
              repo_name == PathName(repo_path)
              total_repos == Len(state.repo_paths)
              repo_output_dir == IF total_repos = 1 THEN state.output_dir
                                 ELSE JoinPath(state.output_dir, repo_name)
              skipped == state.output_dir = <<>>
              new_state == IF skipped \/ write_ok THEN state
                           ELSE [state EXCEPT !.error = "Failed to write documentation files"]
          IN /\ (skipped => write_ok)
             /\ (~write_ok => NoFaultYet)
             /\ state' = new_state
             /\ fs' = IF skipped \/ ~write_ok THEN fs
                      ELSE Append(fs, [dir |-> repo_output_dir,
                                       index |-> state.current_repo_index,
                                       folders |-> Len(generated_docs.folders)])
             /\ steps' = Ran("write_docs", IF write_ok THEN {} ELSE {"write"}, new_state)
    /\ node' = "store_docs"
    /\ UNCHANGED <<ign, scn, chk, elg, pln, store>>

indexable_extensions ==
    { Chars(".py"), Chars(".js"), Chars(".ts"), Chars(".jsx"), Chars(".tsx"),
      Chars(".java"), Chars(".cpp"), Chars(".c"), Chars(".h"), Chars(".cs"),
      Chars(".php"), Chars(".rb"), Chars(".go"), Chars(".rs"), Chars(".kt"),
      Chars(".scala"), Chars(".swift"), Chars(".vue"), Chars(".svelte"),
      Chars(".dart"), Chars(".r"), Chars(".jl"), Chars(".m"), Chars(".mm"),
      Chars(".md"), Chars(".txt"), Chars(".rst"), Chars(".org"), Chars(".adoc"),
      Chars(".json"), Chars(".yaml"), Chars(".yml"), Chars(".toml"), Chars(".ini"),
      Chars(".cfg"), Chars(".conf"), Chars(".xml"), Chars(".env"),
      Chars(".properties"),
      Chars(".html"), Chars(".css"), Chars(".scss"), Chars(".sass"), Chars(".less"),
      Chars(".sql"), Chars(".csv"),
      Chars(".sh"), Chars(".bash"), Chars(".ps1"), Chars(".bat"), Chars(".cmd") }

index_skip_patterns ==
    << Chars("test"), Chars("spec"), Chars("__test__"), Chars(".test."), Chars(".spec."),
       Chars("mock"), Chars("fixture"), Chars("sample"), Chars("example"),
       Chars("vendor"), Chars("third_party"), Chars("external"),
       Chars("generated"), Chars("auto"), Chars("build"), Chars("dist"),
       Chars("min.js"), Chars("min.css"), Chars("bundle.js"), Chars("bundle.css"),
       Chars("lock.json"), Chars("package-lock.json"), Chars("yarn.lock"),
       Chars(".pyc"), Chars(".pyo"), Chars(".class"), Chars(".o"), Chars(".so") >>

_should_index_file(file_info) ==
    LET file_path == Lower(file_info.path)
        file_name == Lower(file_info.name)
    IN IF file_info.extension \notin indexable_extensions THEN FALSE
       ELSE IF file_info.size > 1000000 THEN FALSE
       ELSE IF file_info.size < 10 THEN FALSE
       ELSE ~(\E k \in 1..Len(index_skip_patterns) :
                 \/ Contains(file_path, index_skip_patterns[k])
                 \/ Contains(file_name, index_skip_patterns[k]))

\* a memo handed to ChromaManager.add_repo_memo
Memo(repo_path, kind, folder, section, file) ==
    [repo_path |-> repo_path, kind |-> kind, folder |-> folder,
     section |-> section, file |-> file]

RECURSIVE Flatten(_)
Flatten(seqs) == IF seqs = <<>> THEN <<>> ELSE Head(seqs) \o Flatten(Tail(seqs))

\* the memos of the folders' files, in the order the loops store them
SectionMemos(repo_path, folders_data) ==
    Flatten([i \in 1..Len(folders_data) |->
                [j \in 1..Len(folders_data[i].value) |->
                    Memo(repo_path, "section", folders_data[i].key,
                         folders_data[i].value[j].key, <<>>)]])

\* store lists the memos the vector store accepted.  outcome says where the
\* store raises: on the README, on the first section, or not at all; a
\* source file in failing is one whose read or whose store raises
_store_documentation ==
    /\ node = "store_docs"
    /\ LET repo_path == state.current_repo_path
           generated_docs == state.generated_docs
           repo_files == state.repo_files
           indexed == SelectSeq(repo_files, _should_index_file)
           section_memos == SectionMemos(repo_path, generated_docs.folders)
       IN \E outcome \in {"ok", "fail_readme", "fail_section"},
             failing \in SUBSET {indexed[k].relative_path : k \in 1..Len(indexed)} :
             LET readme_content == IF generated_docs.readme = ""
                                   THEN _create_fallback_readme
                                   ELSE generated_docs.readme
                 stored_files == SelectSeq(indexed,
                                     LAMBDA f : f.relative_path \notin failing)
                 file_memos == [k \in 1..Len(stored_files) |->
                                   Memo(repo_path, "source_file", "", <<>>,
                                        stored_files[k].relative_path)]
                 doc_entry == [repo_path |-> repo_path,
                               documents |-> generated_docs,
                               metadata |-> state.repo_metadata,
                               memo_content |-> [readme |-> readme_content,
                                                 sections |-> Len(section_memos)]]
                 new_state ==
                     IF outcome = "ok"
                     THEN [state EXCEPT !.all_docs = Append(state.all_docs, doc_entry)]
                     ELSE [state EXCEPT !.error = "Failed to store documentation"]
             IN /\ (outcome = "fail_section" => section_memos # <<>>)
                /\ (outcome # "ok" => failing = {})
                /\ (outcome # "ok" \/ failing # {} => NoFaultYet)
                /\ state' = new_state
                /\ store' = IF outcome = "fail_readme" THEN store
                            ELSE IF outcome = "fail_section"
                            THEN Append(store, Memo(repo_path, "README", "", <<>>, <<>>))
                            ELSE store \o <<Memo(repo_path, "README", "", <<>>, <<>>)>>
                                       \o section_memos \o file_memos
                /\ steps' = Ran("store_docs",
                                (IF outcome # "ok" THEN {"store"} ELSE {})
                                \cup (IF failing # {} THEN {"index"} ELSE {}),
                                new_state)
    /\ node' = "next_repo"
    /\ UNCHANGED <<ign, scn, chk, elg, pln, fs>>

\* a conditional edge that never leaves the per-repository loop
_always_continue(s) ==
    IF s.error # "None" THEN "error" ELSE "continue"

\* a conditional edge that leaves the loop after any repository
_leave_after_any(s) ==
    IF s.error # "None" THEN "error" ELSE "generate_general"

\* a conditional edge that does not look at the error field
_continue_despite_error(s) ==
    IF s.current_repo_index >= Len(s.repo_paths) THEN "generate_general"
    ELSE "continue"

\* the conditional edge out of next_repo
_should_continue(s) ==
    IF s.error # "None" THEN "error"
    ELSE IF s.current_repo_index >= Len(s.repo_paths) THEN "generate_general"
    ELSE "continue"

\* a next_repo that advances the index and keeps the repository's data
_next_repo_keeping ==
    /\ node = "next_repo"
    /\ state.current_repo_index < MaxRepos + 1
    /\ LET new_state == [state EXCEPT
                            !.current_repo_index = state.current_repo_index + 1]
           edge == _should_continue(new_state)
       IN /\ state' = new_state
          /\ steps' = Ran("next_repo", {}, new_state)
          /\ node' = IF edge = "error" THEN "handle_error"
                     ELSE IF edge = "generate_general" THEN "generate_general_memo"
                     ELSE "scan_repo"
    /\ UNCHANGED <<ign, scn, chk, elg, pln, fs, store>>

\* a next_repo that moves two positions ahead
_next_repo_skipping ==
    /\ node = "next_repo"
    /\ state.current_repo_index < MaxRepos + 1
    /\ LET new_state == [state EXCEPT
                            !.current_repo_index = state.current_repo_index + 2,
                            !.current_repo_path = <<>>,
                            !.repo_files = <<>>,
                            !.ast_analysis = <<>>,
                            !.generated_docs = NoDocs,
                            !.documentation_structure = NoStructure,
                            !.repo_metadata = NoMetadata]
           edge == _should_continue(new_state)
       IN /\ state' = new_state
          /\ steps' = Ran("next_repo", {}, new_state)
          /\ node' = IF edge = "error" THEN "handle_error"
                     ELSE IF edge = "generate_general" THEN "generate_general_memo"
                     ELSE "scan_repo"
    /\ UNCHANGED <<ign, scn, chk, elg, pln, fs, store>>

_next_repo ==
    /\ node = "next_repo"
    /\ state.current_repo_index < MaxRepos + 1
    /\ LET new_state == [state EXCEPT
                            !.current_repo_index = state.current_repo_index + 1,
                            !.current_repo_path = <<>>,
                            !.repo_files = <<>>,
                            !.ast_analysis = <<>>,
                            !.generated_docs = NoDocs,
                            !.documentation_structure = NoStructure,
                            !.repo_metadata = NoMetadata]
           edge == _should_continue(new_state)
       IN /\ state' = new_state
          /\ steps' = Ran("next_repo", {}, new_state)
          /\ node' = IF edge = "error" THEN "handle_error"
                     ELSE IF edge = "generate_general" THEN "generate_general_memo"
                     ELSE "scan_repo"
    /\ UNCHANGED <<ign, scn, chk, elg, pln, fs, store>>

_generate_general_memo ==
    /\ node = "generate_general_memo"
    /\ \E llm_ok \in BOOLEAN :
          LET new_state ==
                  IF state.all_docs = <<>>
                  THEN [state EXCEPT !.general_memo =
                                        "No repositories were successfully indexed."]
                  ELSE IF llm_ok THEN [state EXCEPT !.general_memo = "generated"]
                  ELSE [state EXCEPT !.error = "Failed to generate general memo"]
          IN /\ (state.all_docs = <<>> => llm_ok)
             /\ (~llm_ok => NoFaultYet)
             /\ state' = new_state
             /\ steps' = Ran("generate_general_memo",
                             IF llm_ok THEN {} ELSE {"llm"}, new_state)
    /\ node' = "finalize"
    /\ UNCHANGED <<ign, scn, chk, elg, pln, fs, store>>

_finalize ==
    /\ node = "finalize"
    /\ LET new_state == [state EXCEPT !.success = TRUE]
       IN /\ state' = new_state
          /\ steps' = Ran("finalize", {}, new_state)
    /\ node' = "END"
    /\ UNCHANGED <<ign, scn, chk, elg, pln, fs, store>>

_handle_error ==
    /\ node = "handle_error"
    /\ LET new_state == [state EXCEPT !.success = FALSE]
       IN /\ state' = new_state
          /\ steps' = Ran("handle_error", {}, new_state)
    /\ node' = "END"
    /\ UNCHANGED <<ign, scn, chk, elg, pln, fs, store>>

-----------------------------------------------------------------------------
(* Specification Spec: IndexRepoAgent().index_repositories(repo_paths,     *)
(* output_dir), one action per node of the workflow graph                  *)

OutputDirs == { <<>>, Chars("/out") }

Init ==
    /\ \E repo_paths \in SeqsUpTo(RepoPathPool, MaxRepos), output_dir \in OutputDirs :
          state = InitialState(repo_paths, output_dir)
    /\ node = "initialize"
    /\ fs = <<>>
    /\ store = <<>>
    /\ steps = <<>>
    /\ ign = IgnIdle /\ scn = ScnIdle /\ chk = ChkIdle /\ elg = ElgIdle /\ pln = PlnIdle

Next ==
    \/ _initialize
    \/ _scan_repository
    \/ _analyze_with_ast
    \/ _generate_structure
    \/ _generate_folder_docs
    \/ _write_documentation_files
    \/ _store_documentation
    \/ _next_repo
    \/ _generate_general_memo
    \/ _finalize
    \/ _handle_error

Spec == Init /\ [][Next]_vars

\* what index_repositories returns once the workflow has ended
Result ==
    [success |-> state.success, error |-> state.error,
     individual_memos |-> state.all_docs, general_memo |-> state.general_memo,
     total_repos |-> Len(state.repo_paths)]

\* the step n has run for the repository at index i
RanFor(n, i) == \E k \in 1..Len(steps) : steps[k].node = n /\ steps[k].index = i

\* the error field as step k found it
ErrorBefore(k) == IF k = 1 THEN "None" ELSE steps[k - 1].error

PathExists(i) == RepoDir(state.repo_paths[i]).exists

\* the repository at position i exists and has files the analysis accepts
Analyzable(i) ==
    LET repo_path == state.repo_paths[i]
    IN /\ RepoDir(repo_path).exists
       /\ SubmittedFiles(_scan_files([path |-> repo_path,
                                      entries |-> RepoDir(repo_path).entries,
                                      gitignore |-> RepoDir(repo_path).gitignore])) # <<>>

\* C1: when the scan step fails for repository i because its path does not
\* exist and i is not the last path, the scan step still runs for
\* repository i+1 (no collaborator fails during the run).
C1_ScanFailureAdvances ==
    (node = "END" /\ NoFaultYet) =>
        \A i \in 1..(Len(state.repo_paths) - 1) :
            (RanFor("scan_repo", i - 1) /\ ~PathExists(i)) => RanFor("scan_repo", i)

\* C2: for three paths whose second does not exist, the result holds exactly
\* three per-repository entries in path order, the first and third fully
\* processed and the second the one whose scan failed (the first and third
\* hold files the analysis accepts, and no collaborator fails during the run).
C2_ThreeEntriesInPathOrder ==
    (/\ node = "END"
     /\ NoFaultYet
     /\ Len(state.repo_paths) = 3
     /\ Analyzable(1) /\ ~PathExists(2) /\ Analyzable(3))
    => LET entries == Result.individual_memos
       IN /\ Len(entries) = 3
          /\ \A i \in 1..3 : entries[i].repo_path = state.repo_paths[i]
          /\ \A i \in {1, 3} : entries[i].metadata.present /\ entries[i].documents.present
          /\ ~entries[2].metadata.present

\* C3: for zero repository paths the run reaches the summarization step,
\* returns the memo "No repositories were successfully indexed.", does not
\* pass through the error state and does not report a failure.
C3_EmptyBatchSummarizes ==
    (node = "END" /\ state.repo_paths = <<>>)
    => /\ \E k \in 1..Len(steps) : steps[k].node = "generate_general_memo"
       /\ Result.general_memo = "No repositories were successfully indexed."
       /\ \A k \in 1..Len(steps) : steps[k].node # "handle_error"
       /\ Result.success
       /\ Result.error = "None"

\* C9: a vector-store failure while a repository's README or sections are
\* stored leaves the error field clear, the run does not pass through the
\* error state, and the scan step runs for every later repository.
C9_StoreFailureNotFatal ==
    \A k \in 1..Len(steps) :
        (steps[k].node = "store_docs" /\ "store" \in steps[k].faults
         /\ ErrorBefore(k) = "None")
        => /\ steps[k].error = "None"
           /\ node = "END" =>
                 /\ \A j \in 1..Len(steps) : steps[j].node # "handle_error"
                 /\ \A i \in (steps[k].index + 1)..(Len(state.repo_paths) - 1) :
                       RanFor("scan_repo", i)

\* C10: whenever a text-generation call raises (outline, README, section
\* content, file-batch documentation, general memo), the calling step
\* records no pipeline error and leaves a fallback text in place.
C10_GenerationFallbacks ==
    \A k \in 1..Len(steps) :
        ("llm" \in steps[k].faults /\ ErrorBefore(k) = "None")
        => /\ steps[k].error = "None"
           /\ (k = Len(steps) /\ steps[k].node = "generate_general_memo")
                 => state.general_memo # ""

\* C12: generate_general_memo is entered only when current_repo_index has
\* reached the number of paths, and success becomes true only after the
\* summarization step has run.
C12_SummarizeAfterAllRepos ==
    /\ node = "generate_general_memo" =>
          state.current_repo_index = Len(state.repo_paths)
    /\ \A k \in 1..Len(steps) :
          steps[k].node = "generate_general_memo" =>
              steps[k].index = Len(state.repo_paths)
    /\ state.success =>
          \E k \in 1..Len(steps) : steps[k].node = "generate_general_memo"

\* a successful run over several repositories, summarized after the last
C12_Witness ==
    /\ node = "END"
    /\ state.success
    /\ Len(state.repo_paths) >= 2
    /\ \E k \in 1..Len(steps) :
          /\ steps[k].node = "generate_general_memo"
          /\ RanFor("store_docs", steps[k].index - 1)

\* C13: repositories are processed strictly one at a time in list order:
\* the scans take the paths in order without skipping any, the write and
\* store steps of repository i have finished before the scan of repository
\* i+1 starts, and the steps of two repositories never interleave.
C13_OneRepoAtATime ==
    /\ \A j, k \in 1..Len(steps) : j < k => steps[j].index <= steps[k].index
    /\ \A k \in 1..Len(steps) :
          steps[k].node = "scan_repo" =>
              LET i == steps[k].index
              IN /\ i = Cardinality({j \in 1..(k - 1) : steps[j].node = "scan_repo"})
                 /\ i > 0 =>
                       /\ steps[k - 1].node = "next_repo" /\ steps[k - 1].index = i - 1
                       /\ steps[k - 2].node = "store_docs" /\ steps[k - 2].index = i - 1
                       /\ steps[k - 3].node = "write_docs" /\ steps[k - 3].index = i - 1
    /\ state.current_repo_path # <<>> =>
          /\ state.current_repo_index < Len(state.repo_paths)
          /\ state.current_repo_path = state.repo_paths[state.current_repo_index + 1]

\* the scan of the third repository has started, after the first two were
\* written and stored
C13_Witness ==
    /\ node = "analyze_ast"
    /\ state.current_repo_index = 2
    /\ state.current_repo_path = state.repo_paths[3]
    /\ Len(fs) = 2
    /\ RanFor("store_docs", 0) /\ RanFor("store_docs", 1)

\* C17: whenever the scan step starts for a repository other than the
\* first, all per-repository fields (current path, file records, analysis
\* map, generated documents, documentation structure, repository metadata)
\* hold their empty initial values.
C17_ScanStartsClean ==
    (node = "scan_repo" /\ state.current_repo_index > 0)
    => LET initial == InitialState(state.repo_paths, state.output_dir)
       IN /\ state.current_repo_path = initial.current_repo_path
          /\ state.repo_files = initial.repo_files
          /\ state.ast_analysis = initial.ast_analysis
          /\ state.generated_docs = initial.generated_docs
          /\ state.documentation_structure = initial.documentation_structure
          /\ state.repo_metadata = initial.repo_metadata

\* the scan of the second repository is about to start after the first was
\* scanned, analyzed, documented and stored
C17_Witness ==
    /\ node = "scan_repo"
    /\ state.current_repo_index = 1
    /\ Len(state.all_docs) = 1
    /\ state.all_docs[1].documents.present
    /\ state.all_docs[1].metadata.present
    /\ fs # <<>>

-----------------------------------------------------------------------------
(* Specification SpecRepo: index_repositories on one repository that holds *)
(* several files the analysis accepts                                      *)

InitRepo ==
    /\ \E output_dir \in OutputDirs :
          state = InitialState(<<Chars("/w/many")>>, output_dir)
    /\ node = "initialize"
    /\ fs = <<>>
    /\ store = <<>>
    /\ steps = <<>>
    /\ ign = IgnIdle /\ scn = ScnIdle /\ chk = ChkIdle /\ elg = ElgIdle /\ pln = PlnIdle

SpecRepo == InitRepo /\ [][Next]_vars

\* the relative paths of the files the analysis stage hands to its workers
SubmittedPaths ==
    LET submitted == SubmittedFiles(state.repo_files)
    IN {submitted[k].relative_path : k \in 1..Len(submitted)}

\* the keys of the analysis map
AnalysisKeys == {state.ast_analysis[k].file : k \in 1..Len(state.ast_analysis)}

\* C14: in the analyze stage a per-file read or analysis failure neither
\* records a pipeline error nor discards the other files' results: the map
\* lacks an entry for a failed file and holds, keyed by relative path, the
\* analysis of every other eligible file, whatever the completion order.
C14_FileFailureIsLocal ==
    (/\ node = "generate_structure"
     /\ steps[Len(steps)].node = "analyze_ast"
     /\ SubmittedPaths # {})
    => LET last == steps[Len(steps)]
           ast_analysis == state.ast_analysis
       IN /\ last.error = ErrorBefore(Len(steps))
          /\ AnalysisKeys \subseteq SubmittedPaths
          /\ \A j, k \in 1..Len(ast_analysis) :
                j # k => ast_analysis[j].file # ast_analysis[k].file
          /\ \A k \in 1..Len(ast_analysis) :
                ast_analysis[k].analysis =
                    EntryOf(state.current_repo_path, ast_analysis[k].file).facts
          /\ "read" \notin last.faults => AnalysisKeys = SubmittedPaths
          /\ "read" \in last.faults => AnalysisKeys # SubmittedPaths

\* one of three eligible files failed, and the results of the other two
\* arrived against the submission order
C14_Witness ==
    /\ node = "generate_structure"
    /\ steps[Len(steps)].node = "analyze_ast"
    /\ "read" \in steps[Len(steps)].faults
    /\ state.error = "None"
    /\ Cardinality(SubmittedPaths) = 3
    /\ Len(state.ast_analysis) = 2
    /\ LET submitted == SubmittedFiles(state.repo_files)
       IN /\ state.ast_analysis[1].file = submitted[3].relative_path
          /\ state.ast_analysis[2].file = submitted[1].relative_path

-----------------------------------------------------------------------------
(* Specification SpecOrder: index_repositories on one repository whose two *)
(* files each declare the endpoints of one group                           *)

InitOrder ==
    /\ \E output_dir \in OutputDirs :
          state = InitialState(<<Chars("/w/api")>>, output_dir)
    /\ node = "initialize"
    /\ fs = <<>>
    /\ store = <<>>
    /\ steps = <<>>
    /\ ign = IgnIdle /\ scn = ScnIdle /\ chk = ChkIdle /\ elg = ElgIdle /\ pln = PlnIdle

SpecOrder == InitOrder /\ [][Next]_vars

\* the folder names of a structure and, inside each folder, the section
\* names in order
PlanOutline(folders) ==
    [i \in 1..Len(folders) |->
        [name |-> folders[i].name,
         sections |-> [j \in 1..Len(folders[i].sections) |->
                          folders[i].sections[j].name]]]

\* the analysis map with the results in the order the files were submitted
SubmissionOrderAnalysis ==
    LET submitted == SubmittedFiles(state.repo_files)
    IN [k \in 1..Len(submitted) |->
           [file |-> submitted[k].relative_path,
            analysis |-> EntryOf(state.current_repo_path,
                                 submitted[k].relative_path).facts]]

\* C25: for a fixed repository whose analyses all succeed and whose
\* planning meets no failure, the planned structure (folder names and, in
\* each folder, the section names in order) is the same for every order in
\* which the file analyses complete: it is the one planned from the
\* results taken in submission order.
C25_PlanIgnoresCompletionOrder ==
    (/\ node = "generate_folder_docs"
     /\ NoFaultYet
     /\ state.error = "None")
    => PlanOutline(state.documentation_structure.folders)
         = PlanOutline(analyze_repository_structure(
                           SubmissionOrderAnalysis,
                           _prepare_file_contents(state.repo_files,
                                                  state.current_repo_path)))

\* the stages that run between the analysis and next_repo
LaterStages == {"generate_structure", "generate_folder_docs", "write_docs", "store_docs"}

-----------------------------------------------------------------------------
(* Specification SpecCap: the selection and collection of                  *)
(* _analyze_with_ast on scanned trees that hold more eligible files than   *)
(* the cap, with the cap scaled down to the size of the trees              *)

MaxCapFiles == 3

MaxCap == 2

CapRoots == { Chars("/w/r1"), Chars("/w/lib/r1") }

CapRels ==
    { Chars("main.py"), Chars("src/a.py"), Chars("a.py"), Chars("b.py"),
      Chars("requirements.txt"), Chars("README.md") }

CapSizes == {60, 70}

InitCap ==
    /\ \E root \in CapRoots,
          rels \in {q \in SeqsUpTo(CapRels, MaxCapFiles) : IsInjective(q)},
          sizes \in [1..MaxCapFiles -> CapSizes],
          cap \in 1..MaxCap :
          elg = [pc |-> "start",
                 repo_files |-> _scan_files(
                     [path |-> root,
                      entries |-> [k \in 1..Len(rels) |->
                                      [rel |-> rels[k], size |-> sizes[k],
                                       is_file |-> TRUE, stat_ok |-> TRUE]],
                      gitignore |-> <<>>]),
                 cap |-> cap, submitted |-> <<>>, keys |-> {}]
    /\ ign = IgnIdle /\ scn = ScnIdle /\ chk = ChkIdle /\ pln = PlnIdle
    /\ PipelineIdle

\* the files are filtered, cut to the cap and handed to the workers; the
\* map gets a key for every file whose worker returned an analysis
AnalyzeCapped ==
    /\ elg.pc = "start"
    /\ LET analyzable_files == SelectSeq(elg.repo_files, IsAnalyzable)
           submitted == LimitTo(analyzable_files, elg.cap)
       IN \E succeeded \in SUBSET (1..Len(submitted)) :
             elg' = [elg EXCEPT !.pc = "done",
                                !.submitted = submitted,
                                !.keys = {submitted[k].relative_path : k \in succeeded}]
    /\ UNCHANGED <<ign, scn, chk, pln, node, state, fs, store, steps>>

NextCap == AnalyzeCapped

SpecCap == InitCap /\ [][NextCap]_vars

\* the class of a file under the priority order: entry-point file name,
\* conventional source directory, code, configuration, the rest
PriorityClass(file_info) ==
    LET dirs == { Chars("src"), Chars("lib"), Chars("app"),
                  Chars("components"), Chars("pages") }
        parts == Split(Lower(file_info.path), "/")
    IN IF Lower(file_info.name) \in { Chars("main.py"), Chars("app.py"), Chars("index.js"),
                                      Chars("main.js"), Chars("server.js"),
                                      Chars("__init__.py") }
       THEN 0
       ELSE IF \E k \in 1..(Len(parts) - 1) : parts[k] \in dirs THEN 1
       ELSE IF file_info.category = "code" THEN 2
       ELSE IF file_info.category = "config" THEN 3
       ELSE 4

\* a comes strictly before b under the priority order
RanksBefore(a, b) ==
    \/ PriorityClass(a) < PriorityClass(b)
    \/ PriorityClass(a) = PriorityClass(b) /\ a.size > b.size

-----------------------------------------------------------------------------
(* Specification SpecBatch: ChromaManager.add_documents.  The documents    *)
(* are numbered from 0 and a batch is the range lo..hi-1 of them; a frame  *)
(* of the stack is one activation of add_documents: the range it was       *)
(* given, its batch_size and the position i of its loop; log is the list   *)
(* of the collection.add calls made so far.                                *)

default_batch_size == 4000

retry_floor == 100

MaxDocs == 130

DocCounts == {0, 1, 62, 63, 101, MaxDocs}

BatchSizes == {default_batch_size, 250, 202, 101, 100, 64, 1}

Frame(lo, hi, batch_size) == [lo |-> lo, hi |-> hi, batch_size |-> batch_size, i |-> 0]

InitBatch ==
    /\ \E total_docs \in DocCounts, batch_size \in BatchSizes :
          chk = [pc |-> "run", total_docs |-> total_docs, batch_size |-> batch_size,
                 stack |-> <<Frame(0, total_docs, batch_size)>>, log |-> <<>>]
    /\ ign = IgnIdle /\ scn = ScnIdle /\ elg = ElgIdle /\ pln = PlnIdle
    /\ PipelineIdle

\* the activation that is running, and the batch its loop is about to submit
TopFrame == chk.stack[Len(chk.stack)]

BatchLo == TopFrame.lo + TopFrame.i

BatchHi == TopFrame.lo + Min(TopFrame.i + TopFrame.batch_size, TopFrame.hi - TopFrame.lo)

LoopRunning == chk.pc = "run" /\ TopFrame.i < TopFrame.hi - TopFrame.lo

Logged(ok) ==
    Append(chk.log, [lo |-> BatchLo, hi |-> BatchHi,
                     batch_size |-> TopFrame.batch_size, ok |-> ok])

\* the loop moves on to its next batch
Advance(stack) ==
    [stack EXCEPT ![Len(stack)].i = stack[Len(stack)].i + stack[Len(stack)].batch_size]

\* collection.add accepts the batch
AddBatch ==
    /\ LoopRunning
    /\ chk' = [chk EXCEPT !.log = Logged(TRUE), !.stack = Advance(chk.stack)]
    /\ UNCHANGED <<ign, scn, elg, pln, node, state, fs, store, steps>>

\* collection.add raises and the batch is handed to a nested call with the
\* batch size unchanged
RetrySameSize ==
    /\ LoopRunning
    /\ TopFrame.batch_size > retry_floor
    /\ chk' = [chk EXCEPT !.log = Logged(FALSE),
                          !.stack = Append(chk.stack,
                                           Frame(BatchLo, BatchHi, TopFrame.batch_size))]
    /\ UNCHANGED <<ign, scn, elg, pln, node, state, fs, store, steps>>

\* collection.add raises and the batch is handed to a nested call with half
\* the batch size
RetrySmaller ==
    /\ LoopRunning
    /\ TopFrame.batch_size > retry_floor
    /\ chk' = [chk EXCEPT !.log = Logged(FALSE),
                          !.stack = Append(chk.stack,
                                           Frame(BatchLo, BatchHi,
                                                 TopFrame.batch_size \div 2))]
    /\ UNCHANGED <<ign, scn, elg, pln, node, state, fs, store, steps>>

\* collection.add raises and the exception leaves every activation
RaiseToCaller ==
    /\ LoopRunning
    /\ TopFrame.batch_size <= retry_floor
    /\ chk' = [chk EXCEPT !.log = Logged(FALSE), !.pc = "raised"]
    /\ UNCHANGED <<ign, scn, elg, pln, node, state, fs, store, steps>>

\* a return after which the caller's loop stays on the batch it had handed
\* to the nested call
ReturnAndResubmit ==
    /\ chk.pc = "run"
    /\ TopFrame.i >= TopFrame.hi - TopFrame.lo
    /\ LET rest == SubSeq(chk.stack, 1, Len(chk.stack) - 1)
       IN chk' = IF rest = <<>>
                 THEN [chk EXCEPT !.pc = "done", !.stack = rest]
                 ELSE [chk EXCEPT !.stack = rest]
    /\ UNCHANGED <<ign, scn, elg, pln, node, state, fs, store, steps>>

\* the loop of an activation is exhausted: it returns, and the loop of its
\* caller moves on
ReturnFromCall ==
    /\ chk.pc = "run"
    /\ TopFrame.i >= TopFrame.hi - TopFrame.lo
    /\ LET rest == SubSeq(chk.stack, 1, Len(chk.stack) - 1)
       IN chk' = IF rest = <<>>
                 THEN [chk EXCEPT !.pc = "done", !.stack = rest]
                 ELSE [chk EXCEPT !.stack = Advance(rest)]
    /\ UNCHANGED <<ign, scn, elg, pln, node, state, fs, store, steps>>

NextBatch ==
    \/ AddBatch
    \/ RetrySmaller
    \/ RaiseToCaller
    \/ ReturnFromCall

SpecBatch == InitBatch /\ [][NextBatch]_vars

RECURSIVE Halvings(_)
\* how often a batch size can be halved before it is 100 or less
Halvings(batch_size) ==
    IF batch_size > retry_floor THEN 1 + Halvings(batch_size \div 2) ELSE 0

\* the batches collection.add accepted, in the order they were submitted
Accepted == SelectSeq(chk.log, LAMBDA b : b.ok)

\* C18: add_documents submits the documents in consecutive batches of at
\* most batch_size; when submitting a batch fails and batch_size is above
\* 100 the same batch is re-submitted in sub-batches of at most
\* batch_size // 2, recursively; when batch_size is 100 or less the failure
\* is raised to the caller; so the nesting of retries is bounded, by 6
\* halvings from the default 4000.
C18_BatchesAndHalving ==
    LET log == chk.log
    IN chk.pc \in {"run", "done", "raised"} =>
       /\ \A k \in 1..Len(log) :
             /\ log[k].lo < log[k].hi
             /\ log[k].hi - log[k].lo <= log[k].batch_size
             /\ (~log[k].ok /\ log[k].batch_size > retry_floor /\ k < Len(log)) =>
                   /\ log[k + 1].batch_size = log[k].batch_size \div 2
                   /\ log[k + 1].lo = log[k].lo
                   /\ log[k + 1].hi = Min(log[k].lo + log[k].batch_size \div 2, log[k].hi)
             /\ (~log[k].ok /\ log[k].batch_size <= retry_floor) =>
                   k = Len(log) /\ chk.pc = "raised"
       /\ \A k \in 1..(Len(Accepted) - 1) : Accepted[k + 1].lo = Accepted[k].hi
       /\ Accepted # <<>> => Accepted[1].lo = 0
       /\ chk.pc = "done" =>
             IF chk.total_docs = 0 THEN log = <<>>
             ELSE Accepted # <<>> /\ Accepted[Len(Accepted)].hi = chk.total_docs
       /\ chk.pc = "raised" => ~log[Len(log)].ok
       /\ Len(chk.stack) <= 1 + Halvings(chk.batch_size)
       /\ Halvings(default_batch_size) = 6

\* called with the default batch size, a batch failed at every size down to
\* 62: one sub-batch had been accepted before the failure was raised through
\* seven nested calls
C18_Witness ==
    /\ chk.pc = "raised"
    /\ chk.batch_size = default_batch_size
    /\ Len(chk.stack) = 7
    /\ Accepted # <<>>
    /\ chk.log[Len(chk.log)].batch_size = 62
    /\ chk.log[Len(chk.log)].lo > 0

\* how many accepted batch submissions held document d
TimesAccepted(d) ==
    Cardinality({k \in 1..Len(chk.log) :
                    chk.log[k].ok /\ chk.log[k].lo <= d /\ d < chk.log[k].hi})

\* C30: if add_documents returns without raising, every document passed to
\* it was accepted by the store in exactly one successful batch submission,
\* whichever batches failed and were retried at half size (a failed
\* submission stores none of its documents).
C30_EveryDocumentOnce ==
    chk.pc = "done" =>
        \A d \in 0..(chk.total_docs - 1) : TimesAccepted(d) = 1

\* a call that returned after two batches had failed at different sizes and
\* their documents had been accepted in sub-batches
C30_Witness ==
    /\ chk.pc = "done"
    /\ chk.total_docs = MaxDocs
    /\ \E j, k \in 1..Len(chk.log) :
          /\ ~chk.log[j].ok /\ ~chk.log[k].ok
          /\ chk.log[j].batch_size > chk.log[k].batch_size
    /\ Len(Accepted) >= 3

-----------------------------------------------------------------------------
(* Specification SpecLive: the control flow of the workflow under          *)
(* graph.invoke, which runs the node the last edge selected until the END  *)
(* node is reached.  The six per-repository steps are reduced to what the  *)
(* edges read of them, the error field, and any of them may fail in any    *)
(* combination; the other nodes are the actions of Spec.                   *)

\* the chain of per-repository nodes, the edge out of each and the messages
\* the node's handlers record
RepoChain ==
    << [node |-> "scan_repo", next |-> "analyze_ast",
        errors |-> {"Failed to scan repository"}],
       [node |-> "analyze_ast", next |-> "generate_structure",
        errors |-> {"Failed to perform AST analysis"}],
       [node |-> "generate_structure", next |-> "generate_folder_docs",
        errors |-> {"Failed to generate documentation structure"}],
       [node |-> "generate_folder_docs", next |-> "write_docs",
        errors |-> {"Failed to generate folder documentation"}],
       [node |-> "write_docs", next |-> "store_docs",
        errors |-> {"Failed to write documentation files"}],
       [node |-> "store_docs", next |-> "next_repo",
        errors |-> {"Failed to store documentation"}] >>

\* the values a per-repository node can leave in the error field: the scan
\* step always fails on an index past the list or a path that does not
\* exist; otherwise a node keeps the value it found or records its own
StepErrors(link) ==
    LET repo_paths == state.repo_paths
        current_index == state.current_repo_index
    IN IF link.node = "scan_repo" /\ current_index >= Len(repo_paths)
       THEN {"Index out of bounds"}
       ELSE IF link.node = "scan_repo" /\ ~RepoDir(repo_paths[current_index + 1]).exists
       THEN {"Repository path does not exist"}
       ELSE {state.error} \cup link.errors

RepoStep ==
    \E k \in 1..Len(RepoChain) :
        /\ node = RepoChain[k].node
        /\ \E error \in StepErrors(RepoChain[k]) :
              LET new_state == [state EXCEPT !.error = error]
              IN /\ state' = new_state
                 /\ steps' = Ran(RepoChain[k].node,
                                 IF error # state.error THEN {RepoChain[k].node} ELSE {},
                                 new_state)
        /\ node' = RepoChain[k].next
        /\ UNCHANGED <<ign, scn, chk, elg, pln, fs, store>>

NextLive ==
    \/ _initialize
    \/ RepoStep
    \/ _next_repo
    \/ _generate_general_memo
    \/ _finalize
    \/ _handle_error

SpecLive == Init /\ [][NextLive]_vars /\ WF_vars(NextLive)

\* the most node executions a run over n paths can take: initialize, the
\* six per-repository nodes and next_repo for each path (once for an empty
\* list), then generate_general_memo and finalize, or handle_error
StepBound(n) == 1 + 7 * Max(n, 1) + 2

\* the result has the shape index_repositories returns
ResultShape ==
    /\ Result.success \in BOOLEAN
    /\ Result.error \in STRING
    /\ Len(Result.individual_memos) <= Len(state.repo_paths)
    /\ Result.total_repos = Len(state.repo_paths)

-----------------------------------------------------------------------------
(* Specification Spec: what the steps after a failed scan do               *)

\* the scan step that ran for the repository at index i, a position of the
\* list, recorded an error
ScanFailedFor(i) ==
    \E k \in 1..Len(steps) :
        /\ i < Len(state.repo_paths)
        /\ steps[k].node = "scan_repo" /\ steps[k].index = i
        /\ ErrorBefore(k) = "None" /\ steps[k].error # "None"

\* C21: when the scan step fails for a repository, no documentation tree is
\* written for it, no memo is sent to the vector store for it, and no entry
\* with an empty repository path is appended to the accumulated results.
C21_FailedScanSkipsRepo ==
    /\ \A i \in 0..MaxRepos :
          ScanFailedFor(i) => \A w \in 1..Len(fs) : fs[w].index # i
    /\ (\E i \in 0..MaxRepos : ScanFailedFor(i)) =>
          /\ \A m \in 1..Len(store) : store[m].repo_path # <<>>
          /\ \A e \in 1..Len(state.all_docs) : state.all_docs[e].repo_path # <<>>

\* C22: in every result returned by index_repositories, success = true
\* implies that error is null.
C22_SuccessMeansNoError ==
    node = "END" => (Result.success => Result.error = "None")

\* C23: whenever the analyze stage creates its worker pool for a repository
\* that scanned successfully, the requested width min(4, eligible files) is
\* between 1 and 4; a repository that scans successfully and has no
\* eligible file leaves the stage with an empty map and no recorded error.
C23_PoolWidthInRange ==
    /\ (node = "analyze_ast" /\ state.error = "None") =>
          Min(pool_workers, Len(SelectSeq(state.repo_files, IsAnalyzable)))
              \in 1..pool_workers
    /\ (/\ node = "generate_structure"
        /\ ErrorBefore(Len(steps)) = "None"
        /\ steps[Len(steps)].faults = {}
        /\ SelectSeq(state.repo_files, IsAnalyzable) = <<>>)
       => state.ast_analysis = <<>> /\ state.error = "None"

\* C27: in a batch of two or more distinct repository paths with an output
\* directory set, no two distinct repository paths are written to the same
\* directory.
C27_OwnOutputDirectory ==
    (Len(state.repo_paths) >= 2 /\ IsInjective(state.repo_paths)) =>
        \A v, w \in 1..Len(fs) :
            state.repo_paths[fs[v].index + 1] # state.repo_paths[fs[w].index + 1]
                => fs[v].dir # fs[w].dir

\* C29: whenever the summarization step is reached, the accumulated results
\* hold exactly one entry per repository path, in path order, and no error
\* is recorded; the memo "No repositories were successfully indexed." is
\* produced by no run.
C29_SummaryCoversEveryPath ==
    /\ node = "generate_general_memo" =>
          /\ state.error = "None"
          /\ Len(state.all_docs) = Len(state.repo_paths)
          /\ \A i \in 1..Len(state.all_docs) :
                state.all_docs[i].repo_path = state.repo_paths[i]
    /\ state.general_memo # "No repositories were successfully indexed."

\* the summarization step is reached for a batch of three paths, two of
\* them distinct, after a file of one repository could not be indexed
C29_Witness ==
    /\ node = "generate_general_memo"
    /\ Len(state.repo_paths) = MaxRepos
    /\ state.repo_paths[1] # state.repo_paths[2]
    /\ \E k \in 1..Len(steps) : "index" \in steps[k].faults

====
